---------------------------- MODULE Spec2Model ----------------------------
(***************************************************************************)
(* SecondBrain: the classification gate and filing pipeline                *)
(* (core/pipeline.py), the JSON storage and queue adapters, and the Webex  *)
(* webhook conversation handler (lambda_handler.py).                       *)
(*                                                                         *)
(* Message texts are sequences of characters, so that the parsers of       *)
(* lambda_handler.py are modelled on characters, as the code (str methods  *)
(* and regular expressions) works.  A character is its code point, a       *)
(* number from 0 to 1114111: "ok" is the text <<111, 107>>.  The tables of *)
(* the characters are those of Unicode 14.0, which the str type and the re *)
(* module of Python 3.11 use.  Time is counted in minutes; confidences are *)
(* counted in hundredths.                                                  *)
(***************************************************************************)
EXTENDS Integers, Sequences, FiniteSets, TLC

VARIABLES
    now,            \* the wall clock (datetime.now / utcnow), in minutes
    state,          \* contents of STATE_PATH: room -> person -> session
    tables,         \* JsonStorage category tables: category -> list of rows
    inbox_log,      \* JsonStorage table "inbox_log"
    queue,          \* QueueCapture queue file
    processed_ids,  \* contents of PROCESSED_IDS_PATH
    uuids,          \* number of uuid4() values drawn so far
    config,         \* load_config() and os.environ: threshold, SB_RUN_PIPELINE
    batch,          \* Pipeline.run: the list holding the items still to handle
    stored,         \* Pipeline.run: the accumulator `stored`
    last,           \* what the last operation was given, did and answered
    inputs,         \* number of deliveries and captures so far
    procs,          \* concurrent invocations: where each is, what it has read
    disk            \* which files hold text that does not parse, and how much

vars == <<now, state, tables, inbox_log, queue, processed_ids, uuids, config,
          batch, stored, last, inputs, procs, disk>>

None == "None"

-----------------------------------------------------------------------------
(* str primitives                                                          *)

\* the pairs <<first, last>> of ranges one of which holds c
InRanges(c, ranges) == \E r \in ranges : r[1] <= c /\ c <= r[2]

\* the digits zero of Unicode (category Nd); the nine characters after each
\* of them are its digits one to nine
DigitZeros ==
  { 48, 1632, 1776, 1984, 2406, 2534, 2662, 2790, 2918, 3046, 3174, 3302, 3430, 3558, 3664,
    3792, 3872, 4160, 4240, 6112, 6160, 6470, 6608, 6784, 6800, 6992, 7088, 7232, 7248, 42528,
    43216, 43264, 43472, 43504, 43600, 44016, 65296, 66720, 68912, 69734, 69872, 69942, 70096,
    70384, 70736, 70864, 71248, 71360, 71472, 71904, 72016, 72784, 73040, 73120, 92768, 92864,
    93008, 120782, 120792, 120802, 120812, 120822, 123200, 123632, 125264, 130032 }

\* \d of the re module, and the digits int() reads: the decimal digits of
\* Unicode
Digits == UNION { z..(z + 9) : z \in DigitZeros }

\* the digits 0-9 of ASCII
AsciiDigits == 48..57

\* str.lower of one character that does not become two: the runs <<first,
\* last, step, d>> of the characters above U+007F that it changes, each
\* step-th character from first to last becoming the one d after it
LowerRuns ==
  { <<192, 214, 1, 32>>, <<216, 222, 1, 32>>, <<256, 302, 2, 1>>, <<306, 310, 2, 1>>,
    <<313, 327, 2, 1>>, <<330, 374, 2, 1>>, <<376, 376, 1, -121>>, <<377, 381, 2, 1>>,
    <<385, 385, 1, 210>>, <<386, 388, 2, 1>>, <<390, 390, 1, 206>>, <<391, 391, 1, 1>>,
    <<393, 394, 1, 205>>, <<395, 395, 1, 1>>, <<398, 398, 1, 79>>, <<399, 399, 1, 202>>,
    <<400, 400, 1, 203>>, <<401, 401, 1, 1>>, <<403, 403, 1, 205>>, <<404, 404, 1, 207>>,
    <<406, 406, 1, 211>>, <<407, 407, 1, 209>>, <<408, 408, 1, 1>>, <<412, 412, 1, 211>>,
    <<413, 413, 1, 213>>, <<415, 415, 1, 214>>, <<416, 420, 2, 1>>, <<422, 422, 1, 218>>,
    <<423, 423, 1, 1>>, <<425, 425, 1, 218>>, <<428, 428, 1, 1>>, <<430, 430, 1, 218>>,
    <<431, 431, 1, 1>>, <<433, 434, 1, 217>>, <<435, 437, 2, 1>>, <<439, 439, 1, 219>>,
    <<440, 440, 1, 1>>, <<444, 444, 1, 1>>, <<452, 452, 1, 2>>, <<453, 453, 1, 1>>,
    <<455, 455, 1, 2>>, <<456, 456, 1, 1>>, <<458, 458, 1, 2>>, <<459, 475, 2, 1>>,
    <<478, 494, 2, 1>>, <<497, 497, 1, 2>>, <<498, 500, 2, 1>>, <<502, 502, 1, -97>>,
    <<503, 503, 1, -56>>, <<504, 542, 2, 1>>, <<544, 544, 1, -130>>, <<546, 562, 2, 1>>,
    <<570, 570, 1, 10795>>, <<571, 571, 1, 1>>, <<573, 573, 1, -163>>, <<574, 574, 1, 10792>>,
    <<577, 577, 1, 1>>, <<579, 579, 1, -195>>, <<580, 580, 1, 69>>, <<581, 581, 1, 71>>,
    <<582, 590, 2, 1>>, <<880, 882, 2, 1>>, <<886, 886, 1, 1>>, <<895, 895, 1, 116>>,
    <<902, 902, 1, 38>>, <<904, 906, 1, 37>>, <<908, 908, 1, 64>>, <<910, 911, 1, 63>>,
    <<913, 929, 1, 32>>, <<931, 939, 1, 32>>, <<975, 975, 1, 8>>, <<984, 1006, 2, 1>>,
    <<1012, 1012, 1, -60>>, <<1015, 1015, 1, 1>>, <<1017, 1017, 1, -7>>, <<1018, 1018, 1, 1>>,
    <<1021, 1023, 1, -130>>, <<1024, 1039, 1, 80>>, <<1040, 1071, 1, 32>>, <<1120, 1152, 2, 1>>,
    <<1162, 1214, 2, 1>>, <<1216, 1216, 1, 15>>, <<1217, 1229, 2, 1>>, <<1232, 1326, 2, 1>>,
    <<1329, 1366, 1, 48>>, <<4256, 4293, 1, 7264>>, <<4295, 4295, 1, 7264>>,
    <<4301, 4301, 1, 7264>>, <<5024, 5103, 1, 38864>>, <<5104, 5109, 1, 8>>,
    <<7312, 7354, 1, -3008>>, <<7357, 7359, 1, -3008>>, <<7680, 7828, 2, 1>>,
    <<7838, 7838, 1, -7615>>, <<7840, 7934, 2, 1>>, <<7944, 7951, 1, -8>>,
    <<7960, 7965, 1, -8>>, <<7976, 7983, 1, -8>>, <<7992, 7999, 1, -8>>, <<8008, 8013, 1, -8>>,
    <<8025, 8031, 2, -8>>, <<8040, 8047, 1, -8>>, <<8072, 8079, 1, -8>>, <<8088, 8095, 1, -8>>,
    <<8104, 8111, 1, -8>>, <<8120, 8121, 1, -8>>, <<8122, 8123, 1, -74>>, <<8124, 8124, 1, -9>>,
    <<8136, 8139, 1, -86>>, <<8140, 8140, 1, -9>>, <<8152, 8153, 1, -8>>,
    <<8154, 8155, 1, -100>>, <<8168, 8169, 1, -8>>, <<8170, 8171, 1, -112>>,
    <<8172, 8172, 1, -7>>, <<8184, 8185, 1, -128>>, <<8186, 8187, 1, -126>>,
    <<8188, 8188, 1, -9>>, <<8486, 8486, 1, -7517>>, <<8490, 8490, 1, -8383>>,
    <<8491, 8491, 1, -8262>>, <<8498, 8498, 1, 28>>, <<8544, 8559, 1, 16>>,
    <<8579, 8579, 1, 1>>, <<9398, 9423, 1, 26>>, <<11264, 11311, 1, 48>>,
    <<11360, 11360, 1, 1>>, <<11362, 11362, 1, -10743>>, <<11363, 11363, 1, -3814>>,
    <<11364, 11364, 1, -10727>>, <<11367, 11371, 2, 1>>, <<11373, 11373, 1, -10780>>,
    <<11374, 11374, 1, -10749>>, <<11375, 11375, 1, -10783>>, <<11376, 11376, 1, -10782>>,
    <<11378, 11378, 1, 1>>, <<11381, 11381, 1, 1>>, <<11390, 11391, 1, -10815>>,
    <<11392, 11490, 2, 1>>, <<11499, 11501, 2, 1>>, <<11506, 11506, 1, 1>>,
    <<42560, 42604, 2, 1>>, <<42624, 42650, 2, 1>>, <<42786, 42798, 2, 1>>,
    <<42802, 42862, 2, 1>>, <<42873, 42875, 2, 1>>, <<42877, 42877, 1, -35332>>,
    <<42878, 42886, 2, 1>>, <<42891, 42891, 1, 1>>, <<42893, 42893, 1, -42280>>,
    <<42896, 42898, 2, 1>>, <<42902, 42920, 2, 1>>, <<42922, 42922, 1, -42308>>,
    <<42923, 42923, 1, -42319>>, <<42924, 42924, 1, -42315>>, <<42925, 42925, 1, -42305>>,
    <<42926, 42926, 1, -42308>>, <<42928, 42928, 1, -42258>>, <<42929, 42929, 1, -42282>>,
    <<42930, 42930, 1, -42261>>, <<42931, 42931, 1, 928>>, <<42932, 42946, 2, 1>>,
    <<42948, 42948, 1, -48>>, <<42949, 42949, 1, -42307>>, <<42950, 42950, 1, -35384>>,
    <<42951, 42953, 2, 1>>, <<42960, 42960, 1, 1>>, <<42966, 42968, 2, 1>>,
    <<42997, 42997, 1, 1>>, <<65313, 65338, 1, 32>>, <<66560, 66599, 1, 40>>,
    <<66736, 66771, 1, 40>>, <<66928, 66938, 1, 39>>, <<66940, 66954, 1, 39>>,
    <<66956, 66962, 1, 39>>, <<66964, 66965, 1, 39>>, <<68736, 68786, 1, 64>>,
    <<71840, 71871, 1, 32>>, <<93760, 93791, 1, 32>>, <<125184, 125217, 1, 34>> }

\* the run r holds c
InRun(c, r) == r[1] <= c /\ c <= r[2] /\ (c - r[1]) % r[3] = 0

\* the characters str.lower looks through on either side of a capital sigma
\* (Case_Ignorable)
CaseIgnorable ==
  { <<39, 39>>, <<46, 46>>, <<58, 58>>, <<94, 94>>, <<96, 96>>, <<168, 168>>, <<173, 173>>,
    <<175, 175>>, <<180, 180>>, <<183, 184>>, <<688, 879>>, <<884, 885>>, <<890, 890>>,
    <<900, 901>>, <<903, 903>>, <<1155, 1161>>, <<1369, 1369>>, <<1375, 1375>>, <<1425, 1469>>,
    <<1471, 1471>>, <<1473, 1474>>, <<1476, 1477>>, <<1479, 1479>>, <<1524, 1524>>,
    <<1536, 1541>>, <<1552, 1562>>, <<1564, 1564>>, <<1600, 1600>>, <<1611, 1631>>,
    <<1648, 1648>>, <<1750, 1757>>, <<1759, 1768>>, <<1770, 1773>>, <<1807, 1807>>,
    <<1809, 1809>>, <<1840, 1866>>, <<1958, 1968>>, <<2027, 2037>>, <<2042, 2042>>,
    <<2045, 2045>>, <<2070, 2093>>, <<2137, 2139>>, <<2184, 2184>>, <<2192, 2193>>,
    <<2200, 2207>>, <<2249, 2306>>, <<2362, 2362>>, <<2364, 2364>>, <<2369, 2376>>,
    <<2381, 2381>>, <<2385, 2391>>, <<2402, 2403>>, <<2417, 2417>>, <<2433, 2433>>,
    <<2492, 2492>>, <<2497, 2500>>, <<2509, 2509>>, <<2530, 2531>>, <<2558, 2558>>,
    <<2561, 2562>>, <<2620, 2620>>, <<2625, 2626>>, <<2631, 2632>>, <<2635, 2637>>,
    <<2641, 2641>>, <<2672, 2673>>, <<2677, 2677>>, <<2689, 2690>>, <<2748, 2748>>,
    <<2753, 2757>>, <<2759, 2760>>, <<2765, 2765>>, <<2786, 2787>>, <<2810, 2815>>,
    <<2817, 2817>>, <<2876, 2876>>, <<2879, 2879>>, <<2881, 2884>>, <<2893, 2893>>,
    <<2901, 2902>>, <<2914, 2915>>, <<2946, 2946>>, <<3008, 3008>>, <<3021, 3021>>,
    <<3072, 3072>>, <<3076, 3076>>, <<3132, 3132>>, <<3134, 3136>>, <<3142, 3144>>,
    <<3146, 3149>>, <<3157, 3158>>, <<3170, 3171>>, <<3201, 3201>>, <<3260, 3260>>,
    <<3263, 3263>>, <<3270, 3270>>, <<3276, 3277>>, <<3298, 3299>>, <<3328, 3329>>,
    <<3387, 3388>>, <<3393, 3396>>, <<3405, 3405>>, <<3426, 3427>>, <<3457, 3457>>,
    <<3530, 3530>>, <<3538, 3540>>, <<3542, 3542>>, <<3633, 3633>>, <<3636, 3642>>,
    <<3654, 3662>>, <<3761, 3761>>, <<3764, 3772>>, <<3782, 3782>>, <<3784, 3789>>,
    <<3864, 3865>>, <<3893, 3893>>, <<3895, 3895>>, <<3897, 3897>>, <<3953, 3966>>,
    <<3968, 3972>>, <<3974, 3975>>, <<3981, 3991>>, <<3993, 4028>>, <<4038, 4038>>,
    <<4141, 4144>>, <<4146, 4151>>, <<4153, 4154>>, <<4157, 4158>>, <<4184, 4185>>,
    <<4190, 4192>>, <<4209, 4212>>, <<4226, 4226>>, <<4229, 4230>>, <<4237, 4237>>,
    <<4253, 4253>>, <<4348, 4348>>, <<4957, 4959>>, <<5906, 5908>>, <<5938, 5939>>,
    <<5970, 5971>>, <<6002, 6003>>, <<6068, 6069>>, <<6071, 6077>>, <<6086, 6086>>,
    <<6089, 6099>>, <<6103, 6103>>, <<6109, 6109>>, <<6155, 6159>>, <<6211, 6211>>,
    <<6277, 6278>>, <<6313, 6313>>, <<6432, 6434>>, <<6439, 6440>>, <<6450, 6450>>,
    <<6457, 6459>>, <<6679, 6680>>, <<6683, 6683>>, <<6742, 6742>>, <<6744, 6750>>,
    <<6752, 6752>>, <<6754, 6754>>, <<6757, 6764>>, <<6771, 6780>>, <<6783, 6783>>,
    <<6823, 6823>>, <<6832, 6862>>, <<6912, 6915>>, <<6964, 6964>>, <<6966, 6970>>,
    <<6972, 6972>>, <<6978, 6978>>, <<7019, 7027>>, <<7040, 7041>>, <<7074, 7077>>,
    <<7080, 7081>>, <<7083, 7085>>, <<7142, 7142>>, <<7144, 7145>>, <<7149, 7149>>,
    <<7151, 7153>>, <<7212, 7219>>, <<7222, 7223>>, <<7288, 7293>>, <<7376, 7378>>,
    <<7380, 7392>>, <<7394, 7400>>, <<7405, 7405>>, <<7412, 7412>>, <<7416, 7417>>,
    <<7468, 7530>>, <<7544, 7544>>, <<7579, 7679>>, <<8125, 8125>>, <<8127, 8129>>,
    <<8141, 8143>>, <<8157, 8159>>, <<8173, 8175>>, <<8189, 8190>>, <<8203, 8207>>,
    <<8216, 8217>>, <<8228, 8228>>, <<8231, 8231>>, <<8234, 8238>>, <<8288, 8292>>,
    <<8294, 8303>>, <<8305, 8305>>, <<8319, 8319>>, <<8336, 8348>>, <<8400, 8432>>,
    <<11388, 11389>>, <<11503, 11505>>, <<11631, 11631>>, <<11647, 11647>>, <<11744, 11775>>,
    <<11823, 11823>>, <<12293, 12293>>, <<12330, 12333>>, <<12337, 12341>>, <<12347, 12347>>,
    <<12441, 12446>>, <<12540, 12542>>, <<40981, 40981>>, <<42232, 42237>>, <<42508, 42508>>,
    <<42607, 42610>>, <<42612, 42621>>, <<42623, 42623>>, <<42652, 42655>>, <<42736, 42737>>,
    <<42752, 42785>>, <<42864, 42864>>, <<42888, 42890>>, <<42994, 42996>>, <<43000, 43001>>,
    <<43010, 43010>>, <<43014, 43014>>, <<43019, 43019>>, <<43045, 43046>>, <<43052, 43052>>,
    <<43204, 43205>>, <<43232, 43249>>, <<43263, 43263>>, <<43302, 43309>>, <<43335, 43345>>,
    <<43392, 43394>>, <<43443, 43443>>, <<43446, 43449>>, <<43452, 43453>>, <<43471, 43471>>,
    <<43493, 43494>>, <<43561, 43566>>, <<43569, 43570>>, <<43573, 43574>>, <<43587, 43587>>,
    <<43596, 43596>>, <<43632, 43632>>, <<43644, 43644>>, <<43696, 43696>>, <<43698, 43700>>,
    <<43703, 43704>>, <<43710, 43711>>, <<43713, 43713>>, <<43741, 43741>>, <<43756, 43757>>,
    <<43763, 43764>>, <<43766, 43766>>, <<43867, 43871>>, <<43881, 43883>>, <<44005, 44005>>,
    <<44008, 44008>>, <<44013, 44013>>, <<64286, 64286>>, <<64434, 64450>>, <<65024, 65039>>,
    <<65043, 65043>>, <<65056, 65071>>, <<65106, 65106>>, <<65109, 65109>>, <<65279, 65279>>,
    <<65287, 65287>>, <<65294, 65294>>, <<65306, 65306>>, <<65342, 65342>>, <<65344, 65344>>,
    <<65392, 65392>>, <<65438, 65439>>, <<65507, 65507>>, <<65529, 65531>>, <<66045, 66045>>,
    <<66272, 66272>>, <<66422, 66426>>, <<67456, 67461>>, <<67463, 67504>>, <<67506, 67514>>,
    <<68097, 68099>>, <<68101, 68102>>, <<68108, 68111>>, <<68152, 68154>>, <<68159, 68159>>,
    <<68325, 68326>>, <<68900, 68903>>, <<69291, 69292>>, <<69446, 69456>>, <<69506, 69509>>,
    <<69633, 69633>>, <<69688, 69702>>, <<69744, 69744>>, <<69747, 69748>>, <<69759, 69761>>,
    <<69811, 69814>>, <<69817, 69818>>, <<69821, 69821>>, <<69826, 69826>>, <<69837, 69837>>,
    <<69888, 69890>>, <<69927, 69931>>, <<69933, 69940>>, <<70003, 70003>>, <<70016, 70017>>,
    <<70070, 70078>>, <<70089, 70092>>, <<70095, 70095>>, <<70191, 70193>>, <<70196, 70196>>,
    <<70198, 70199>>, <<70206, 70206>>, <<70367, 70367>>, <<70371, 70378>>, <<70400, 70401>>,
    <<70459, 70460>>, <<70464, 70464>>, <<70502, 70508>>, <<70512, 70516>>, <<70712, 70719>>,
    <<70722, 70724>>, <<70726, 70726>>, <<70750, 70750>>, <<70835, 70840>>, <<70842, 70842>>,
    <<70847, 70848>>, <<70850, 70851>>, <<71090, 71093>>, <<71100, 71101>>, <<71103, 71104>>,
    <<71132, 71133>>, <<71219, 71226>>, <<71229, 71229>>, <<71231, 71232>>, <<71339, 71339>>,
    <<71341, 71341>>, <<71344, 71349>>, <<71351, 71351>>, <<71453, 71455>>, <<71458, 71461>>,
    <<71463, 71467>>, <<71727, 71735>>, <<71737, 71738>>, <<71995, 71996>>, <<71998, 71998>>,
    <<72003, 72003>>, <<72148, 72151>>, <<72154, 72155>>, <<72160, 72160>>, <<72193, 72202>>,
    <<72243, 72248>>, <<72251, 72254>>, <<72263, 72263>>, <<72273, 72278>>, <<72281, 72283>>,
    <<72330, 72342>>, <<72344, 72345>>, <<72752, 72758>>, <<72760, 72765>>, <<72767, 72767>>,
    <<72850, 72871>>, <<72874, 72880>>, <<72882, 72883>>, <<72885, 72886>>, <<73009, 73014>>,
    <<73018, 73018>>, <<73020, 73021>>, <<73023, 73029>>, <<73031, 73031>>, <<73104, 73105>>,
    <<73109, 73109>>, <<73111, 73111>>, <<73459, 73460>>, <<78896, 78904>>, <<92912, 92916>>,
    <<92976, 92982>>, <<92992, 92995>>, <<94031, 94031>>, <<94095, 94111>>, <<94176, 94177>>,
    <<94179, 94180>>, <<110576, 110579>>, <<110581, 110587>>, <<110589, 110590>>,
    <<113821, 113822>>, <<113824, 113827>>, <<118528, 118573>>, <<118576, 118598>>,
    <<119143, 119145>>, <<119155, 119170>>, <<119173, 119179>>, <<119210, 119213>>,
    <<119362, 119364>>, <<121344, 121398>>, <<121403, 121452>>, <<121461, 121461>>,
    <<121476, 121476>>, <<121499, 121503>>, <<121505, 121519>>, <<122880, 122886>>,
    <<122888, 122904>>, <<122907, 122913>>, <<122915, 122916>>, <<122918, 122922>>,
    <<123184, 123197>>, <<123566, 123566>>, <<123628, 123631>>, <<125136, 125142>>,
    <<125252, 125259>>, <<127995, 127999>>, <<917505, 917505>>, <<917536, 917631>>,
    <<917760, 917999>> }

\* the cased characters that are not of CaseIgnorable
CasedRanges ==
  { <<65, 90>>, <<97, 122>>, <<170, 170>>, <<181, 181>>, <<186, 186>>, <<192, 214>>,
    <<216, 246>>, <<248, 442>>, <<444, 447>>, <<452, 659>>, <<661, 687>>, <<880, 883>>,
    <<886, 887>>, <<891, 893>>, <<895, 895>>, <<902, 902>>, <<904, 906>>, <<908, 908>>,
    <<910, 929>>, <<931, 1013>>, <<1015, 1153>>, <<1162, 1327>>, <<1329, 1366>>, <<1376, 1416>>,
    <<4256, 4293>>, <<4295, 4295>>, <<4301, 4301>>, <<4304, 4346>>, <<4349, 4351>>,
    <<5024, 5109>>, <<5112, 5117>>, <<7296, 7304>>, <<7312, 7354>>, <<7357, 7359>>,
    <<7424, 7467>>, <<7531, 7543>>, <<7545, 7578>>, <<7680, 7957>>, <<7960, 7965>>,
    <<7968, 8005>>, <<8008, 8013>>, <<8016, 8023>>, <<8025, 8025>>, <<8027, 8027>>,
    <<8029, 8029>>, <<8031, 8061>>, <<8064, 8116>>, <<8118, 8124>>, <<8126, 8126>>,
    <<8130, 8132>>, <<8134, 8140>>, <<8144, 8147>>, <<8150, 8155>>, <<8160, 8172>>,
    <<8178, 8180>>, <<8182, 8188>>, <<8450, 8450>>, <<8455, 8455>>, <<8458, 8467>>,
    <<8469, 8469>>, <<8473, 8477>>, <<8484, 8484>>, <<8486, 8486>>, <<8488, 8488>>,
    <<8490, 8493>>, <<8495, 8500>>, <<8505, 8505>>, <<8508, 8511>>, <<8517, 8521>>,
    <<8526, 8526>>, <<8544, 8575>>, <<8579, 8580>>, <<9398, 9449>>, <<11264, 11387>>,
    <<11390, 11492>>, <<11499, 11502>>, <<11506, 11507>>, <<11520, 11557>>, <<11559, 11559>>,
    <<11565, 11565>>, <<42560, 42605>>, <<42624, 42651>>, <<42786, 42863>>, <<42865, 42887>>,
    <<42891, 42894>>, <<42896, 42954>>, <<42960, 42961>>, <<42963, 42963>>, <<42965, 42969>>,
    <<42997, 42998>>, <<43002, 43002>>, <<43824, 43866>>, <<43872, 43880>>, <<43888, 43967>>,
    <<64256, 64262>>, <<64275, 64279>>, <<65313, 65338>>, <<65345, 65370>>, <<66560, 66639>>,
    <<66736, 66771>>, <<66776, 66811>>, <<66928, 66938>>, <<66940, 66954>>, <<66956, 66962>>,
    <<66964, 66965>>, <<66967, 66977>>, <<66979, 66993>>, <<66995, 67001>>, <<67003, 67004>>,
    <<68736, 68786>>, <<68800, 68850>>, <<71840, 71903>>, <<93760, 93823>>, <<119808, 119892>>,
    <<119894, 119964>>, <<119966, 119967>>, <<119970, 119970>>, <<119973, 119974>>,
    <<119977, 119980>>, <<119982, 119993>>, <<119995, 119995>>, <<119997, 120003>>,
    <<120005, 120069>>, <<120071, 120074>>, <<120077, 120084>>, <<120086, 120092>>,
    <<120094, 120121>>, <<120123, 120126>>, <<120128, 120132>>, <<120134, 120134>>,
    <<120138, 120144>>, <<120146, 120485>>, <<120488, 120512>>, <<120514, 120538>>,
    <<120540, 120570>>, <<120572, 120596>>, <<120598, 120628>>, <<120630, 120654>>,
    <<120656, 120686>>, <<120688, 120712>>, <<120714, 120744>>, <<120746, 120770>>,
    <<120772, 120779>>, <<122624, 122633>>, <<122635, 122654>>, <<125184, 125251>>,
    <<127280, 127305>>, <<127312, 127337>>, <<127344, 127369>> }

\* str.isspace, str.strip, str.split and \s of the re module: the white
\* space of Unicode
Whitespace ==
    {9, 10, 11, 12, 13, 28, 29, 30, 31, 32, 133, 160, 5760}
    \cup (8192..8202) \cup {8232, 8233, 8239, 8287, 12288}

\* the ranges of the characters that are letters or numbers (str.isalnum),
\* and the underscore
WordRanges ==
  { <<48, 57>>, <<65, 90>>, <<95, 95>>, <<97, 122>>, <<170, 170>>, <<178, 179>>, <<181, 181>>,
    <<185, 186>>, <<188, 190>>, <<192, 214>>, <<216, 246>>, <<248, 705>>, <<710, 721>>,
    <<736, 740>>, <<748, 748>>, <<750, 750>>, <<880, 884>>, <<886, 887>>, <<890, 893>>,
    <<895, 895>>, <<902, 902>>, <<904, 906>>, <<908, 908>>, <<910, 929>>, <<931, 1013>>,
    <<1015, 1153>>, <<1162, 1327>>, <<1329, 1366>>, <<1369, 1369>>, <<1376, 1416>>,
    <<1488, 1514>>, <<1519, 1522>>, <<1568, 1610>>, <<1632, 1641>>, <<1646, 1647>>,
    <<1649, 1747>>, <<1749, 1749>>, <<1765, 1766>>, <<1774, 1788>>, <<1791, 1791>>,
    <<1808, 1808>>, <<1810, 1839>>, <<1869, 1957>>, <<1969, 1969>>, <<1984, 2026>>,
    <<2036, 2037>>, <<2042, 2042>>, <<2048, 2069>>, <<2074, 2074>>, <<2084, 2084>>,
    <<2088, 2088>>, <<2112, 2136>>, <<2144, 2154>>, <<2160, 2183>>, <<2185, 2190>>,
    <<2208, 2249>>, <<2308, 2361>>, <<2365, 2365>>, <<2384, 2384>>, <<2392, 2401>>,
    <<2406, 2415>>, <<2417, 2432>>, <<2437, 2444>>, <<2447, 2448>>, <<2451, 2472>>,
    <<2474, 2480>>, <<2482, 2482>>, <<2486, 2489>>, <<2493, 2493>>, <<2510, 2510>>,
    <<2524, 2525>>, <<2527, 2529>>, <<2534, 2545>>, <<2548, 2553>>, <<2556, 2556>>,
    <<2565, 2570>>, <<2575, 2576>>, <<2579, 2600>>, <<2602, 2608>>, <<2610, 2611>>,
    <<2613, 2614>>, <<2616, 2617>>, <<2649, 2652>>, <<2654, 2654>>, <<2662, 2671>>,
    <<2674, 2676>>, <<2693, 2701>>, <<2703, 2705>>, <<2707, 2728>>, <<2730, 2736>>,
    <<2738, 2739>>, <<2741, 2745>>, <<2749, 2749>>, <<2768, 2768>>, <<2784, 2785>>,
    <<2790, 2799>>, <<2809, 2809>>, <<2821, 2828>>, <<2831, 2832>>, <<2835, 2856>>,
    <<2858, 2864>>, <<2866, 2867>>, <<2869, 2873>>, <<2877, 2877>>, <<2908, 2909>>,
    <<2911, 2913>>, <<2918, 2927>>, <<2929, 2935>>, <<2947, 2947>>, <<2949, 2954>>,
    <<2958, 2960>>, <<2962, 2965>>, <<2969, 2970>>, <<2972, 2972>>, <<2974, 2975>>,
    <<2979, 2980>>, <<2984, 2986>>, <<2990, 3001>>, <<3024, 3024>>, <<3046, 3058>>,
    <<3077, 3084>>, <<3086, 3088>>, <<3090, 3112>>, <<3114, 3129>>, <<3133, 3133>>,
    <<3160, 3162>>, <<3165, 3165>>, <<3168, 3169>>, <<3174, 3183>>, <<3192, 3198>>,
    <<3200, 3200>>, <<3205, 3212>>, <<3214, 3216>>, <<3218, 3240>>, <<3242, 3251>>,
    <<3253, 3257>>, <<3261, 3261>>, <<3293, 3294>>, <<3296, 3297>>, <<3302, 3311>>,
    <<3313, 3314>>, <<3332, 3340>>, <<3342, 3344>>, <<3346, 3386>>, <<3389, 3389>>,
    <<3406, 3406>>, <<3412, 3414>>, <<3416, 3425>>, <<3430, 3448>>, <<3450, 3455>>,
    <<3461, 3478>>, <<3482, 3505>>, <<3507, 3515>>, <<3517, 3517>>, <<3520, 3526>>,
    <<3558, 3567>>, <<3585, 3632>>, <<3634, 3635>>, <<3648, 3654>>, <<3664, 3673>>,
    <<3713, 3714>>, <<3716, 3716>>, <<3718, 3722>>, <<3724, 3747>>, <<3749, 3749>>,
    <<3751, 3760>>, <<3762, 3763>>, <<3773, 3773>>, <<3776, 3780>>, <<3782, 3782>>,
    <<3792, 3801>>, <<3804, 3807>>, <<3840, 3840>>, <<3872, 3891>>, <<3904, 3911>>,
    <<3913, 3948>>, <<3976, 3980>>, <<4096, 4138>>, <<4159, 4169>>, <<4176, 4181>>,
    <<4186, 4189>>, <<4193, 4193>>, <<4197, 4198>>, <<4206, 4208>>, <<4213, 4225>>,
    <<4238, 4238>>, <<4240, 4249>>, <<4256, 4293>>, <<4295, 4295>>, <<4301, 4301>>,
    <<4304, 4346>>, <<4348, 4680>>, <<4682, 4685>>, <<4688, 4694>>, <<4696, 4696>>,
    <<4698, 4701>>, <<4704, 4744>>, <<4746, 4749>>, <<4752, 4784>>, <<4786, 4789>>,
    <<4792, 4798>>, <<4800, 4800>>, <<4802, 4805>>, <<4808, 4822>>, <<4824, 4880>>,
    <<4882, 4885>>, <<4888, 4954>>, <<4969, 4988>>, <<4992, 5007>>, <<5024, 5109>>,
    <<5112, 5117>>, <<5121, 5740>>, <<5743, 5759>>, <<5761, 5786>>, <<5792, 5866>>,
    <<5870, 5880>>, <<5888, 5905>>, <<5919, 5937>>, <<5952, 5969>>, <<5984, 5996>>,
    <<5998, 6000>>, <<6016, 6067>>, <<6103, 6103>>, <<6108, 6108>>, <<6112, 6121>>,
    <<6128, 6137>>, <<6160, 6169>>, <<6176, 6264>>, <<6272, 6276>>, <<6279, 6312>>,
    <<6314, 6314>>, <<6320, 6389>>, <<6400, 6430>>, <<6470, 6509>>, <<6512, 6516>>,
    <<6528, 6571>>, <<6576, 6601>>, <<6608, 6618>>, <<6656, 6678>>, <<6688, 6740>>,
    <<6784, 6793>>, <<6800, 6809>>, <<6823, 6823>>, <<6917, 6963>>, <<6981, 6988>>,
    <<6992, 7001>>, <<7043, 7072>>, <<7086, 7141>>, <<7168, 7203>>, <<7232, 7241>>,
    <<7245, 7293>>, <<7296, 7304>>, <<7312, 7354>>, <<7357, 7359>>, <<7401, 7404>>,
    <<7406, 7411>>, <<7413, 7414>>, <<7418, 7418>>, <<7424, 7615>>, <<7680, 7957>>,
    <<7960, 7965>>, <<7968, 8005>>, <<8008, 8013>>, <<8016, 8023>>, <<8025, 8025>>,
    <<8027, 8027>>, <<8029, 8029>>, <<8031, 8061>>, <<8064, 8116>>, <<8118, 8124>>,
    <<8126, 8126>>, <<8130, 8132>>, <<8134, 8140>>, <<8144, 8147>>, <<8150, 8155>>,
    <<8160, 8172>>, <<8178, 8180>>, <<8182, 8188>>, <<8304, 8305>>, <<8308, 8313>>,
    <<8319, 8329>>, <<8336, 8348>>, <<8450, 8450>>, <<8455, 8455>>, <<8458, 8467>>,
    <<8469, 8469>>, <<8473, 8477>>, <<8484, 8484>>, <<8486, 8486>>, <<8488, 8488>>,
    <<8490, 8493>>, <<8495, 8505>>, <<8508, 8511>>, <<8517, 8521>>, <<8526, 8526>>,
    <<8528, 8585>>, <<9312, 9371>>, <<9450, 9471>>, <<10102, 10131>>, <<11264, 11492>>,
    <<11499, 11502>>, <<11506, 11507>>, <<11517, 11517>>, <<11520, 11557>>, <<11559, 11559>>,
    <<11565, 11565>>, <<11568, 11623>>, <<11631, 11631>>, <<11648, 11670>>, <<11680, 11686>>,
    <<11688, 11694>>, <<11696, 11702>>, <<11704, 11710>>, <<11712, 11718>>, <<11720, 11726>>,
    <<11728, 11734>>, <<11736, 11742>>, <<11823, 11823>>, <<12293, 12295>>, <<12321, 12329>>,
    <<12337, 12341>>, <<12344, 12348>>, <<12353, 12438>>, <<12445, 12447>>, <<12449, 12538>>,
    <<12540, 12543>>, <<12549, 12591>>, <<12593, 12686>>, <<12690, 12693>>, <<12704, 12735>>,
    <<12784, 12799>>, <<12832, 12841>>, <<12872, 12879>>, <<12881, 12895>>, <<12928, 12937>>,
    <<12977, 12991>>, <<13312, 19903>>, <<19968, 42124>>, <<42192, 42237>>, <<42240, 42508>>,
    <<42512, 42539>>, <<42560, 42606>>, <<42623, 42653>>, <<42656, 42735>>, <<42775, 42783>>,
    <<42786, 42888>>, <<42891, 42954>>, <<42960, 42961>>, <<42963, 42963>>, <<42965, 42969>>,
    <<42994, 43009>>, <<43011, 43013>>, <<43015, 43018>>, <<43020, 43042>>, <<43056, 43061>>,
    <<43072, 43123>>, <<43138, 43187>>, <<43216, 43225>>, <<43250, 43255>>, <<43259, 43259>>,
    <<43261, 43262>>, <<43264, 43301>>, <<43312, 43334>>, <<43360, 43388>>, <<43396, 43442>>,
    <<43471, 43481>>, <<43488, 43492>>, <<43494, 43518>>, <<43520, 43560>>, <<43584, 43586>>,
    <<43588, 43595>>, <<43600, 43609>>, <<43616, 43638>>, <<43642, 43642>>, <<43646, 43695>>,
    <<43697, 43697>>, <<43701, 43702>>, <<43705, 43709>>, <<43712, 43712>>, <<43714, 43714>>,
    <<43739, 43741>>, <<43744, 43754>>, <<43762, 43764>>, <<43777, 43782>>, <<43785, 43790>>,
    <<43793, 43798>>, <<43808, 43814>>, <<43816, 43822>>, <<43824, 43866>>, <<43868, 43881>>,
    <<43888, 44002>>, <<44016, 44025>>, <<44032, 55203>>, <<55216, 55238>>, <<55243, 55291>>,
    <<63744, 64109>>, <<64112, 64217>>, <<64256, 64262>>, <<64275, 64279>>, <<64285, 64285>>,
    <<64287, 64296>>, <<64298, 64310>>, <<64312, 64316>>, <<64318, 64318>>, <<64320, 64321>>,
    <<64323, 64324>>, <<64326, 64433>>, <<64467, 64829>>, <<64848, 64911>>, <<64914, 64967>>,
    <<65008, 65019>>, <<65136, 65140>>, <<65142, 65276>>, <<65296, 65305>>, <<65313, 65338>>,
    <<65345, 65370>>, <<65382, 65470>>, <<65474, 65479>>, <<65482, 65487>>, <<65490, 65495>>,
    <<65498, 65500>>, <<65536, 65547>>, <<65549, 65574>>, <<65576, 65594>>, <<65596, 65597>>,
    <<65599, 65613>>, <<65616, 65629>>, <<65664, 65786>>, <<65799, 65843>>, <<65856, 65912>>,
    <<65930, 65931>>, <<66176, 66204>>, <<66208, 66256>>, <<66273, 66299>>, <<66304, 66339>>,
    <<66349, 66378>>, <<66384, 66421>>, <<66432, 66461>>, <<66464, 66499>>, <<66504, 66511>>,
    <<66513, 66517>>, <<66560, 66717>>, <<66720, 66729>>, <<66736, 66771>>, <<66776, 66811>>,
    <<66816, 66855>>, <<66864, 66915>>, <<66928, 66938>>, <<66940, 66954>>, <<66956, 66962>>,
    <<66964, 66965>>, <<66967, 66977>>, <<66979, 66993>>, <<66995, 67001>>, <<67003, 67004>>,
    <<67072, 67382>>, <<67392, 67413>>, <<67424, 67431>>, <<67456, 67461>>, <<67463, 67504>>,
    <<67506, 67514>>, <<67584, 67589>>, <<67592, 67592>>, <<67594, 67637>>, <<67639, 67640>>,
    <<67644, 67644>>, <<67647, 67669>>, <<67672, 67702>>, <<67705, 67742>>, <<67751, 67759>>,
    <<67808, 67826>>, <<67828, 67829>>, <<67835, 67867>>, <<67872, 67897>>, <<67968, 68023>>,
    <<68028, 68047>>, <<68050, 68096>>, <<68112, 68115>>, <<68117, 68119>>, <<68121, 68149>>,
    <<68160, 68168>>, <<68192, 68222>>, <<68224, 68255>>, <<68288, 68295>>, <<68297, 68324>>,
    <<68331, 68335>>, <<68352, 68405>>, <<68416, 68437>>, <<68440, 68466>>, <<68472, 68497>>,
    <<68521, 68527>>, <<68608, 68680>>, <<68736, 68786>>, <<68800, 68850>>, <<68858, 68899>>,
    <<68912, 68921>>, <<69216, 69246>>, <<69248, 69289>>, <<69296, 69297>>, <<69376, 69415>>,
    <<69424, 69445>>, <<69457, 69460>>, <<69488, 69505>>, <<69552, 69579>>, <<69600, 69622>>,
    <<69635, 69687>>, <<69714, 69743>>, <<69745, 69746>>, <<69749, 69749>>, <<69763, 69807>>,
    <<69840, 69864>>, <<69872, 69881>>, <<69891, 69926>>, <<69942, 69951>>, <<69956, 69956>>,
    <<69959, 69959>>, <<69968, 70002>>, <<70006, 70006>>, <<70019, 70066>>, <<70081, 70084>>,
    <<70096, 70106>>, <<70108, 70108>>, <<70113, 70132>>, <<70144, 70161>>, <<70163, 70187>>,
    <<70272, 70278>>, <<70280, 70280>>, <<70282, 70285>>, <<70287, 70301>>, <<70303, 70312>>,
    <<70320, 70366>>, <<70384, 70393>>, <<70405, 70412>>, <<70415, 70416>>, <<70419, 70440>>,
    <<70442, 70448>>, <<70450, 70451>>, <<70453, 70457>>, <<70461, 70461>>, <<70480, 70480>>,
    <<70493, 70497>>, <<70656, 70708>>, <<70727, 70730>>, <<70736, 70745>>, <<70751, 70753>>,
    <<70784, 70831>>, <<70852, 70853>>, <<70855, 70855>>, <<70864, 70873>>, <<71040, 71086>>,
    <<71128, 71131>>, <<71168, 71215>>, <<71236, 71236>>, <<71248, 71257>>, <<71296, 71338>>,
    <<71352, 71352>>, <<71360, 71369>>, <<71424, 71450>>, <<71472, 71483>>, <<71488, 71494>>,
    <<71680, 71723>>, <<71840, 71922>>, <<71935, 71942>>, <<71945, 71945>>, <<71948, 71955>>,
    <<71957, 71958>>, <<71960, 71983>>, <<71999, 71999>>, <<72001, 72001>>, <<72016, 72025>>,
    <<72096, 72103>>, <<72106, 72144>>, <<72161, 72161>>, <<72163, 72163>>, <<72192, 72192>>,
    <<72203, 72242>>, <<72250, 72250>>, <<72272, 72272>>, <<72284, 72329>>, <<72349, 72349>>,
    <<72368, 72440>>, <<72704, 72712>>, <<72714, 72750>>, <<72768, 72768>>, <<72784, 72812>>,
    <<72818, 72847>>, <<72960, 72966>>, <<72968, 72969>>, <<72971, 73008>>, <<73030, 73030>>,
    <<73040, 73049>>, <<73056, 73061>>, <<73063, 73064>>, <<73066, 73097>>, <<73112, 73112>>,
    <<73120, 73129>>, <<73440, 73458>>, <<73648, 73648>>, <<73664, 73684>>, <<73728, 74649>>,
    <<74752, 74862>>, <<74880, 75075>>, <<77712, 77808>>, <<77824, 78894>>, <<82944, 83526>>,
    <<92160, 92728>>, <<92736, 92766>>, <<92768, 92777>>, <<92784, 92862>>, <<92864, 92873>>,
    <<92880, 92909>>, <<92928, 92975>>, <<92992, 92995>>, <<93008, 93017>>, <<93019, 93025>>,
    <<93027, 93047>>, <<93053, 93071>>, <<93760, 93846>>, <<93952, 94026>>, <<94032, 94032>>,
    <<94099, 94111>>, <<94176, 94177>>, <<94179, 94179>>, <<94208, 100343>>, <<100352, 101589>>,
    <<101632, 101640>>, <<110576, 110579>>, <<110581, 110587>>, <<110589, 110590>>,
    <<110592, 110882>>, <<110928, 110930>>, <<110948, 110951>>, <<110960, 111355>>,
    <<113664, 113770>>, <<113776, 113788>>, <<113792, 113800>>, <<113808, 113817>>,
    <<119520, 119539>>, <<119648, 119672>>, <<119808, 119892>>, <<119894, 119964>>,
    <<119966, 119967>>, <<119970, 119970>>, <<119973, 119974>>, <<119977, 119980>>,
    <<119982, 119993>>, <<119995, 119995>>, <<119997, 120003>>, <<120005, 120069>>,
    <<120071, 120074>>, <<120077, 120084>>, <<120086, 120092>>, <<120094, 120121>>,
    <<120123, 120126>>, <<120128, 120132>>, <<120134, 120134>>, <<120138, 120144>>,
    <<120146, 120485>>, <<120488, 120512>>, <<120514, 120538>>, <<120540, 120570>>,
    <<120572, 120596>>, <<120598, 120628>>, <<120630, 120654>>, <<120656, 120686>>,
    <<120688, 120712>>, <<120714, 120744>>, <<120746, 120770>>, <<120772, 120779>>,
    <<120782, 120831>>, <<122624, 122654>>, <<123136, 123180>>, <<123191, 123197>>,
    <<123200, 123209>>, <<123214, 123214>>, <<123536, 123565>>, <<123584, 123627>>,
    <<123632, 123641>>, <<124896, 124902>>, <<124904, 124907>>, <<124909, 124910>>,
    <<124912, 124926>>, <<124928, 125124>>, <<125127, 125135>>, <<125184, 125251>>,
    <<125259, 125259>>, <<125264, 125273>>, <<126065, 126123>>, <<126125, 126127>>,
    <<126129, 126132>>, <<126209, 126253>>, <<126255, 126269>>, <<126464, 126467>>,
    <<126469, 126495>>, <<126497, 126498>>, <<126500, 126500>>, <<126503, 126503>>,
    <<126505, 126514>>, <<126516, 126519>>, <<126521, 126521>>, <<126523, 126523>>,
    <<126530, 126530>>, <<126535, 126535>>, <<126537, 126537>>, <<126539, 126539>>,
    <<126541, 126543>>, <<126545, 126546>>, <<126548, 126548>>, <<126551, 126551>>,
    <<126553, 126553>>, <<126555, 126555>>, <<126557, 126557>>, <<126559, 126559>>,
    <<126561, 126562>>, <<126564, 126564>>, <<126567, 126570>>, <<126572, 126578>>,
    <<126580, 126583>>, <<126585, 126588>>, <<126590, 126590>>, <<126592, 126601>>,
    <<126603, 126619>>, <<126625, 126627>>, <<126629, 126633>>, <<126635, 126651>>,
    <<127232, 127244>>, <<130032, 130041>>, <<131072, 173791>>, <<173824, 177976>>,
    <<177984, 178205>>, <<178208, 183969>>, <<183984, 191456>>, <<194560, 195101>>,
    <<196608, 201546>> }

\* \w of the re module
WordChars == UNION { r[1]..r[2] : r \in WordRanges }

\* str.lower of one character that does not become two, runs being
\* LowerRuns
LowerChar(c, runs) ==
    IF c < 128 THEN (IF 65 <= c /\ c <= 90 THEN c + 32 ELSE c)
    ELSE IF \E r \in runs : InRun(c, r)
    THEN c + (CHOOSE r \in runs : InRun(c, r))[4]
    ELSE c

\* a character of cased comes before the i-th character of s, with nothing
\* but characters of ignorable between them
CasedBefore(s, i, cased, ignorable) ==
    \E j \in 1..(i - 1) :
        /\ InRanges(s[j], cased)
        /\ \A k \in (j + 1)..(i - 1) : InRanges(s[k], ignorable)

\* the same after it
CasedAfter(s, i, cased, ignorable) ==
    \E j \in (i + 1)..Len(s) :
        /\ InRanges(s[j], cased)
        /\ \A k \in (i + 1)..(j - 1) : InRanges(s[k], ignorable)

\* str.lower of the i-th character of s: the capital sigma (U+03A3) that
\* ends a word becomes the final sigma (U+03C2)
LowerAt(s, i, runs, cased, ignorable) ==
    IF s[i] = 931
    THEN (IF CasedBefore(s, i, cased, ignorable) /\ ~CasedAfter(s, i, cased, ignorable)
          THEN 962 ELSE 963)
    ELSE LowerChar(s[i], runs)

\* the capital I with a dot (U+0130) becomes i and the combining dot
RECURSIVE Dotted(_)
Dotted(s) ==
    IF s = <<>> THEN <<>>
    ELSE (IF s[1] = 304 THEN <<105, 775>> ELSE <<s[1]>>) \o Dotted(Tail(s))

\* the characters of s lowered one by one, with the tables of Unicode
LowerEach(s, runs, cased, ignorable) ==
    [i \in 1..Len(s) |-> LowerAt(s, i, runs, cased, ignorable)]

\* str.lower with the tables of Unicode
LowerWith(s, runs, cased, ignorable) ==
    IF \E i \in 1..Len(s) : s[i] = 304
    THEN Dotted(LowerEach(s, runs, cased, ignorable))
    ELSE LowerEach(s, runs, cased, ignorable)

\* str.lower
Lower(s) == LowerWith(s, LowerRuns, CasedRanges, CaseIgnorable)

\* s[n:]
Drop(s, n) == SubSeq(s, n + 1, Len(s))

\* str.startswith
StartsWith(s, p) == Len(s) >= Len(p) /\ SubSeq(s, 1, Len(p)) = p

\* str.endswith
EndsWith(s, p) == Len(s) >= Len(p) /\ SubSeq(s, Len(s) - Len(p) + 1, Len(s)) = p

\* number of leading characters of s that are in set cs
Span(s, cs) ==
    IF \A i \in 1..Len(s) : s[i] \in cs THEN Len(s)
    ELSE (CHOOSE i \in 1..Len(s) : s[i] \notin cs /\ \A j \in 1..(i - 1) : s[j] \in cs) - 1

\* number of trailing characters of s that are in set cs
SpanRight(s, cs) ==
    IF \A i \in 1..Len(s) : s[i] \in cs THEN Len(s)
    ELSE (CHOOSE n \in 1..Len(s) :
             /\ s[Len(s) + 1 - n] \notin cs
             /\ \A j \in 1..(n - 1) : s[Len(s) + 1 - j] \in cs) - 1

\* str.rstrip
RStrip(s) == SubSeq(s, 1, Len(s) - SpanRight(s, Whitespace))

\* str.strip
Strip(s) == RStrip(Drop(s, Span(s, Whitespace)))

\* str.replace(c, "") for a single character c
RemoveChar(s, c) ==
    LET Other(x) == x # c
    IN  SelectSeq(s, Other)

\* number of leading characters of s that are not in set cs
SpanNot(s, cs) ==
    IF \A i \in 1..Len(s) : s[i] \notin cs THEN Len(s)
    ELSE (CHOOSE i \in 1..Len(s) : s[i] \in cs /\ \A j \in 1..(i - 1) : s[j] \notin cs) - 1

\* str.split(): the whitespace-separated tokens
RECURSIVE Split(_)
\* the first token of t, which holds its first n characters, and the others
SplitAt(t, n) == <<SubSeq(t, 1, n)>> \o Split(Drop(t, n))

\* the tokens of a text that does not start with whitespace
SplitTokens(t) == IF t = <<>> THEN <<>> ELSE SplitAt(t, SpanNot(t, Whitespace))

Split(s) == SplitTokens(Drop(s, Span(s, Whitespace)))

DigitSeq == <<48, 49, 50, 51, 52, 53, 54, 55, 56, 57>>  \* "0123456789"

\* the value of one decimal digit
DigitValue(c) == c - (CHOOSE z \in DigitZeros : z <= c /\ c <= z + 9)

\* the integers of the model are 32 bits wide and those of the code are not:
\* every value from 10^9 on is counted as 10^9 (the code compares the
\* numbers it parses with lengths of lists and with 1 and 5 only)
IntCap == 1000000000

\* the number a string of at most nine decimal digits stands for
RECURSIVE ShortValue(_)
ShortValue(s) ==
    IF s = <<>> THEN 0
    ELSE 10 * ShortValue(SubSeq(s, 1, Len(s) - 1)) + DigitValue(s[Len(s)])

\* the number a string of decimal digits stands for: the digits after the
\* leading zeros give it, and more than nine of them a value from 10^9 on
DecimalValue(s) ==
    IF Len(s) - Span(s, DigitZeros) > 9 THEN IntCap
    ELSE ShortValue(Drop(s, Span(s, DigitZeros)))

\* sys.get_int_max_str_digits() of Python 3.11: the most digits int() takes
\* from a str
MaxStrDigits == 4300

\* int() raised ValueError, where the parsers return a number
ValueError == -2

\* int() of a string of decimal digits: ValueError when there are more of
\* them than MaxStrDigits
IntOf(digits) ==
    IF Len(digits) > MaxStrDigits THEN ValueError ELSE DecimalValue(digits)

\* str() of a natural number
RECURSIVE IntText(_)
IntText(n) ==
    IF n < 10 THEN <<DigitSeq[n + 1]>>
    ELSE IntText(n \div 10) \o <<DigitSeq[(n % 10) + 1]>>

\* "\n".join(lines)
RECURSIVE JoinLines(_)
JoinLines(lines) ==
    IF lines = <<>> THEN <<>>
    ELSE IF Len(lines) = 1 THEN lines[1]
    ELSE lines[1] \o <<10>> \o JoinLines(Tail(lines))  \* "\n"

-----------------------------------------------------------------------------
(* lambda_handler.py: constants and parsers                                *)

CATEGORIES == <<"projects", "people", "ideas", "admin">>

VALID_CATEGORIES == {"people", "projects", "ideas", "admin"}

\* the category names as texts
CategoryText(category) ==
    CASE category = "people"   -> <<112, 101, 111, 112, 108, 101>>  \* "people"
      [] category = "projects" -> <<112, 114, 111, 106, 101, 99, 116, 115>>  \* "projects"
      [] category = "ideas"    -> <<105, 100, 101, 97, 115>>  \* "ideas"
      [] category = "admin"    -> <<97, 100, 109, 105, 110>>  \* "admin"

LIST_LIMIT == 20

STATE_TTL_MINUTES == 30

COMPLETED_STATUSES ==
    { <<100, 111, 110, 101>>, <<99, 111, 109, 112, 108, 101, 116, 101, 100>>,  \* "done", "completed"
      <<99, 111, 109, 112, 108, 101, 116, 101>>, <<99, 108, 111, 115, 101, 100>>,  \* "complete", "closed"
      <<97, 114, 99, 104, 105, 118, 101, 100>> }  \* "archived"

\* os.environ WEBEX_BOT_NAME of the deployment
WEBEX_BOT_NAME == <<115, 98>>  \* "sb"

\* the built-in prefixes of _strip_bot_prefix, in the order of the loop
BuiltinPrefixes ==
    << <<116, 97, 115, 107, 95, 109, 97, 115, 116, 101, 114>>,  \* "task_master"
       <<116, 97, 115, 107, 109, 97, 110, 97, 103, 101, 114>>,  \* "taskmanager"
       <<116, 97, 115, 107, 32, 109, 97, 110, 97, 103, 101, 114>>,  \* "task manager"
       <<98, 111, 116>> >>  \* "bot"

\* both loops of _strip_bot_prefix try the prefix, then "@" + prefix, each
\* followed by " " and then by ":"
PrefixVariants(prefixes) ==
    [i \in 1..(2 * Len(prefixes)) |->
        IF i % 2 = 1 THEN prefixes[(i + 1) \div 2]
                     ELSE <<64>> \o prefixes[i \div 2]]  \* "@"

PrefixHit(lower, variant) ==
    StartsWith(lower, variant \o <<32>>) \/ StartsWith(lower, variant \o <<58>>)  \* " ", ":"

\* the variants of the configured name, then those of the built-in names
AllVariants ==
    (IF Lower(Strip(WEBEX_BOT_NAME)) = <<>> THEN <<>>
     ELSE PrefixVariants(<<Lower(Strip(WEBEX_BOT_NAME))>>))
    \o PrefixVariants(BuiltinPrefixes)

\* the least of a set of numbers, 0 for the empty set
MinOrZero(hits) == IF hits = {} THEN 0 ELSE CHOOSE i \in hits : \A j \in hits : i <= j

\* the first variant the loops find at the start of lower, 0 for none
FirstHit(lower) == MinOrZero({i \in 1..Len(AllVariants) : PrefixHit(lower, AllVariants[i])})

\* cleaned without the variant found, if one was
DropVariant(cleaned, first) ==
    IF cleaned = <<>> THEN cleaned
    ELSE IF first = 0 THEN cleaned
    ELSE Drop(cleaned, Len(AllVariants[first]) + 1)

\* lines 167-182, cleaned being text.strip()
StripCleaned(cleaned) == DropVariant(cleaned, FirstHit(Lower(cleaned)))

strip_bot_prefix(text) == StripCleaned(Strip(text))

\* the test of handler line 449
is_cancel(text) ==
    Lower(Strip(strip_bot_prefix(text))) \in
        { <<99, 97, 110, 99, 101, 108>>,  \* "cancel"
          <<117, 112, 100, 97, 116, 101, 32, 99, 97, 110, 99, 101, 108>> }  \* "update cancel"

\* the test of handler line 446
SystemPrefixes ==
    { <<91, 83, 66, 32, 68, 73, 71, 69, 83, 84, 93>>,  \* "[SB DIGEST]"
      <<70, 105, 108, 101, 100, 32, 97, 115>>,  \* "Filed as"
      <<78, 101, 101, 100, 115, 32, 114, 101, 118, 105, 101, 119>>,  \* "Needs review"
      <<68, 97, 105, 108, 121, 32, 68, 105, 103, 101, 115, 116>>,  \* "Daily Digest"
      <<87, 101, 101, 107, 108, 121, 32, 82, 101, 118, 105, 101, 119>> }  \* "Weekly Review"

\* a guard that knows the digest banner only
is_digest_message(text) == StartsWith(text, <<91, 83, 66, 32, 68, 73, 71, 69, 83, 84, 93>>)  \* "[SB DIGEST]"

is_system_message(text) == \E p \in SystemPrefixes : StartsWith(text, p)

\* os.environ WEBEX_BOT_EMAIL of the deployment: "sb@x.io"
WEBEX_BOT_EMAIL == <<115, 98, 64, 120, 46, 105, 111>>

\* os.environ WEBEX_BOT_ID of the deployment
WEBEX_BOT_ID == "bot1"

\* "@webex.bot"
BotSuffix == <<64, 119, 101, 98, 101, 120, 46, 98, 111, 116>>

\* the author test by personType alone
is_bot_by_type(message) == message.personType = "bot"

\* the author tests of handler lines 431-438
is_bot(message) ==
    \/ message.personType = "bot"
    \/ WEBEX_BOT_EMAIL # <<>> /\ message.personEmail = WEBEX_BOT_EMAIL
    \/ WEBEX_BOT_ID # "" /\ message.personId = WEBEX_BOT_ID
    \/ EndsWith(message.personEmail, BotSuffix)

\* lines 127-138
CommandOf(tokens) ==
    IF tokens = <<>> THEN None
    ELSE IF tokens \in { << <<104, 101, 108, 112>> >>,  \* "help"
                         << <<99, 111, 109, 109, 97, 110, 100, 115>> >> } THEN "help"  \* "commands"
    ELSE IF tokens = << <<116, 104, 105, 115>>, <<119, 101, 101, 107>> >> THEN "week"  \* "this", "week"
    ELSE IF tokens = << <<110, 101, 120, 116>> >> THEN "next"  \* "next"
    ELSE IF tokens \in { << <<116, 111, 100, 97, 121>> >>,  \* "today"
                         << <<100, 97, 105, 108, 121>> >> } THEN "today"  \* "daily"
    ELSE IF tokens \in { << <<119, 101, 101, 107>> >>,  \* "week"
                         << <<119, 101, 101, 107, 108, 121>> >> } THEN "week"  \* "weekly"
    ELSE None

\* lines 122-126, cleaned0 being the lowered text without the bot's prefix
CommandOfCleaned(cleaned0) ==
    IF cleaned0 = <<>> THEN None
    ELSE CommandOf(Split(Strip(RemoveChar(RemoveChar(cleaned0, 63), 33))))  \* "?", "!"

parse_command(text) == CommandOfCleaned(Lower(Strip(strip_bot_prefix(text))))

\* the parsers' `None` for a number (the numbers they return are >= 0)
NoNumber == -1

\* the n leading digits of remainder, unless a word character follows them
DigitsAt(remainder, n) ==
    IF n = 0 THEN <<>>
    ELSE IF n < Len(remainder) /\ remainder[n + 1] \in WordChars THEN <<>>
    ELSE SubSeq(remainder, 1, n)

\* re.match(r"^(\d+)\b", remainder): the digits of group 1, <<>> when there
\* is no match
LeadingDigits(remainder) == DigitsAt(remainder, Span(remainder, Digits))

\* line 151, int(match.group(1)): the number, ValueError when int() raises,
\* or None
NumberOf(digits) == IF digits = <<>> THEN NoNumber ELSE IntOf(digits)

\* the text after `update` without a leading colon
AfterColon(rem0) == IF StartsWith(rem0, <<58>>) THEN Strip(Drop(rem0, 1)) ELSE rem0  \* ":"

\* lines 143-149, cleaned being the lowered text without the bot's prefix:
\* the digits of the match, <<>> where the function returns None
UpdateDigits(cleaned) ==
    IF ~StartsWith(cleaned, <<117, 112, 100, 97, 116, 101>>) THEN <<>>  \* "update"
    ELSE LeadingDigits(AfterColon(Strip(Drop(cleaned, 6))))

\* the digits _parse_update_request finds in the text
update_digits(text) == UpdateDigits(Lower(Strip(strip_bot_prefix(text))))

\* the number, NoNumber for None, or ValueError when int() (line 151)
\* raises, which nothing in the function catches
parse_update_request(text) == NumberOf(update_digits(text))

\* what (.*) has to match: what follows the number, one of ).:- and
\* whitespace, or the number and whitespace
ValueAfter(rest) ==
    IF rest # <<>> /\ rest[1] \in {41, 46, 58, 45}  \* ")", ".", ":", "-"
    THEN Drop(rest, 1 + Span(Drop(rest, 1), Whitespace))
    ELSE Drop(rest, Span(rest, Whitespace))

\* the match on cleaned, which starts with n digits: there is none when
\* there is no digit, and none when a line break is left for (.*)$, which
\* matches no line break but one that ends the text
MatchesAt(cleaned, n) ==
    /\ n > 0
    /\ \A i \in 1..Len(ValueAfter(Drop(cleaned, n))) :
          ValueAfter(Drop(cleaned, n))[i] # 10  \* "\n"

\* the digits of group 1 of the match, <<>> when there is no match
SelectionDigits(cleaned) ==
    IF MatchesAt(cleaned, Span(cleaned, Digits))
    THEN SubSeq(cleaned, 1, Span(cleaned, Digits)) ELSE <<>>

\* the digits _parse_field_selection finds in the text
selection_digits(text) == SelectionDigits(Strip(strip_bot_prefix(text)))

\* lines 158-161: int() of the digits (line 159), which raises before the
\* value is read, then the value
SelectionAt(cleaned, n) ==
    IF ~MatchesAt(cleaned, n) THEN <<NoNumber, <<>>>>
    ELSE IF IntOf(SubSeq(cleaned, 1, n)) = ValueError THEN <<ValueError, <<>>>>
    ELSE <<IntOf(SubSeq(cleaned, 1, n)), Strip(ValueAfter(Drop(cleaned, n)))>>

\* re.match(r"^(\d+)(?:[\).:\-]\s*|\s+)?(.*)$", cleaned): <<number, value>>;
\* an absent number is NoNumber, and an absent value (`value or None`) is
\* the empty text; <<ValueError, <<>>>> stands for the ValueError of int()
SelectionOf(cleaned) == SelectionAt(cleaned, Span(cleaned, Digits))

parse_field_selection(text) == SelectionOf(Strip(strip_bot_prefix(text)))

FixMapping(token) ==
    CASE token = <<112, 101, 114, 115, 111, 110>> -> "people"  \* "person"
      [] token = <<112, 101, 111, 112, 108, 101>> -> "people"
      [] token = <<112, 114, 111, 106, 101, 99, 116>> -> "projects"  \* "project"
      [] token = <<112, 114, 111, 106, 101, 99, 116, 115>> -> "projects"
      [] token = <<105, 100, 101, 97>> -> "ideas"  \* "idea"
      [] token = <<105, 100, 101, 97, 115>> -> "ideas"
      [] token = <<97, 100, 109, 105, 110>> -> "admin"  \* "admin"
      [] OTHER -> None

\* lines 112-117, remainder being the lowered text after the colon
FixOf(remainder) ==
    IF remainder = <<>> THEN None ELSE FixMapping(Split(remainder)[1])

parse_fix_category(text) ==
    IF ~StartsWith(Lower(text), <<102, 105, 120, 58>>) THEN None  \* "fix:"
    ELSE FixOf(Lower(Strip(Drop(text, SpanNot(text, {58}) + 1))))  \* ":"

-----------------------------------------------------------------------------
(* dict values: a dict is the sequence of its <<key, value>> items, in     *)
(* insertion order                                                         *)

HasKey(d, k) == \E i \in 1..Len(d) : d[i][1] = k

\* dict.get(k, default)
Get(d, k, default) ==
    IF HasKey(d, k) THEN d[CHOOSE i \in 1..Len(d) : d[i][1] = k][2] ELSE default

\* d[k] = v
Put(d, k, v) ==
    IF HasKey(d, k)
    THEN [i \in 1..Len(d) |-> IF d[i][1] = k THEN <<k, v>> ELSE d[i]]
    ELSE Append(d, <<k, v>>)

\* list(d.keys())
Keys(d) == [i \in 1..Len(d) |-> d[i][1]]

\* `a or b` on texts
Or(a, b) == IF a # <<>> THEN a ELSE b

-----------------------------------------------------------------------------
(* adapters/storage_json.py                                                *)

MinutesPerDay == 1440

Untitled == <<85, 110, 116, 105, 116, 108, 101, 100>>  \* "Untitled"

EmptyTables == [c \in VALID_CATEGORIES |-> <<>>]

\* the title of line 23
StoreTitle(record) == Or(Get(record, "name", <<>>), Or(Get(record, "title", <<>>), Untitled))

\* JsonStorage.store: the row appended to the category's table
StoreRow(category, record, record_id, created_at) ==
    [id |-> record_id, category |-> category, title |-> StoreTitle(record),
     fields |-> record, created_at |-> created_at]

\* JsonStorage.store: the tables afterwards
store(tbls, category, record, record_id, created_at) ==
    [tbls EXCEPT ![category] = Append(@, StoreRow(category, record, record_id, created_at))]

\* the StoredRecord made of a row
StoredRecord(row) ==
    [category |-> row.category, record_id |-> row.id, title |-> row.title,
     fields |-> row.fields, created_at |-> row.created_at]

\* JsonStorage.update_record: whether the loop finds the row
RecordFound(tbls, category, record_id) ==
    category \in DOMAIN tbls /\ \E i \in 1..Len(tbls[category]) : tbls[category][i].id = record_id

\* the index of the first row with this id
RowIndex(tbls, category, record_id) ==
    CHOOSE i \in 1..Len(tbls[category]) :
        /\ tbls[category][i].id = record_id
        /\ \A j \in 1..(i - 1) : tbls[category][j].id # record_id

\* JsonStorage.update_record: the row after the update of one field
UpdatedRow(row, key, value) ==
    [row EXCEPT !.fields = Put(row.fields, key, value),
                !.title  = IF key = "name" /\ value # <<>> THEN value
                           ELSE IF key = "title" /\ value # <<>> THEN value
                           ELSE @]

\* JsonStorage.update_record with fields = {key: value}: the tables afterwards
update_record(tbls, category, record_id, key, value) ==
    LET i == RowIndex(tbls, category, record_id)
    IN  [tbls EXCEPT ![category][i] = UpdatedRow(@, key, value)]

\* JsonStorage.log_inbox
log_inbox(log, entry) == Append(log, entry)

\* the rows of the categories, in the order of the loops of list_records
RECURSIVE RowsOf(_, _)
RowsOf(tbls, categories) ==
    IF categories = <<>> THEN <<>>
    ELSE tbls[Head(categories)] \o RowsOf(tbls, Tail(categories))

\* lexicographic order on tuples of integers of the same length
RECURSIVE KeyLess(_, _)
KeyLess(a, b) ==
    IF a = <<>> THEN FALSE
    ELSE IF a[1] # b[1] THEN a[1] < b[1]
    ELSE KeyLess(Tail(a), Tail(b))

\* list.sort(key=...) on a list of <<key, element>>: stable, so an element goes
\* after the elements whose key is not greater
RECURSIVE SortInsert(_, _)
SortInsert(sorted, x) ==
    IF sorted = <<>> THEN <<x>>
    ELSE IF KeyLess(x[1], Head(sorted)[1]) THEN <<x>> \o sorted
    ELSE <<Head(sorted)>> \o SortInsert(Tail(sorted), x)

RECURSIVE SortKeyed(_)
SortKeyed(keyed) ==
    IF keyed = <<>> THEN <<>>
    ELSE SortInsert(SortKeyed(SubSeq(keyed, 1, Len(keyed) - 1)), keyed[Len(keyed)])

\* the elements of a sorted list of <<key, element>>
Elements(keyed) == [i \in 1..Len(keyed) |-> keyed[i][2]]

\* records.sort(key=lambda r: r.created_at, reverse=True) (line 63)
NewestFirst(rows) ==
    Elements(SortKeyed([i \in 1..Len(rows) |-> << <<0 - rows[i].created_at>>, rows[i] >>]))

\* JsonStorage.list_records; days = NoNumber stands for days=None
list_records(tbls, categories, days, time) ==
    LET cutoff        == time - days * MinutesPerDay
        InWindow(row) == days = NoNumber \/ ~(row.created_at < cutoff)
    IN  NewestFirst(SelectSeq(RowsOf(tbls, categories), InWindow))

-----------------------------------------------------------------------------
(* lambda_handler.py: the digest selection                                 *)

\* the digits of an int() literal: decimal digits, with single underscores
\* between them
IsDigitGroup(s) ==
    /\ s # <<>>
    /\ s[1] \in Digits
    /\ s[Len(s)] \in Digits
    /\ \A i \in 1..Len(s) : s[i] \in Digits \cup {95}  \* "_"
    /\ \A i \in 1..(Len(s) - 1) : ~(s[i] = 95 /\ s[i + 1] = 95)

\* int(str(raw).strip()): <<TRUE, value>>, or <<FALSE, 0>> for ValueError
ParseInt(raw) ==
    LET t      == Strip(raw)
        signed == t # <<>> /\ t[1] \in {43, 45}  \* "+", "-"
        digits == IF signed THEN Tail(t) ELSE t
    IN  IF ~IsDigitGroup(digits) THEN <<FALSE, 0>>
        ELSE IF IntOf(RemoveChar(digits, 95)) = ValueError THEN <<FALSE, 0>>  \* "_"
        ELSE IF signed /\ t[1] = 45 THEN <<TRUE, 0 - DecimalValue(RemoveChar(digits, 95))>>  \* "-", "_"
        ELSE <<TRUE, DecimalValue(RemoveChar(digits, 95))>>

\* a priority without the test of the range
priority_value_unchecked(record) ==
    LET raw    == Or(Get(record.fields, "Priority", <<>>), Get(record.fields, "priority", <<>>))
        parsed == ParseInt(raw)
    IN  IF ~parsed[1] THEN 3 ELSE parsed[2]

priority_value(record) ==
    LET raw    == Or(Get(record.fields, "Priority", <<>>), Get(record.fields, "priority", <<>>))
        parsed == ParseInt(raw)
    IN  IF ~parsed[1] THEN 3
        ELSE IF parsed[2] < 1 \/ parsed[2] > 5 THEN 3
        ELSE parsed[2]

status_value(record) ==
    Lower(Strip(Or(Get(record.fields, "Status", <<>>), Get(record.fields, "status", <<>>))))

status_priority(status) ==
    IF status \in { <<98, 108, 111, 99, 107, 101, 100>>,  \* "blocked"
                    <<105, 110, 32, 112, 114, 111, 103, 114, 101, 115, 115>>,  \* "in progress"
                    <<97, 99, 116, 105, 118, 101>> } THEN 0  \* "active"
    ELSE IF status \in { <<111, 112, 101, 110>>, <<100, 111, 105, 110, 103>>,  \* "open", "doing"
                         <<110, 101, 120, 116>>, <<116, 111, 100, 111>> } THEN 1  \* "next", "todo"
    ELSE IF status \in { <<98, 97, 99, 107, 108, 111, 103>>,  \* "backlog"
                         <<115, 111, 109, 101, 100, 97, 121>>,  \* "someday"
                         <<108, 97, 116, 101, 114>> } THEN 2  \* "later"
    ELSE IF status \in COMPLETED_STATUSES THEN 9
    ELSE 3

filter_open_records(records) ==
    LET IsOpen(r) == ~(status_value(r) # <<>> /\ status_value(r) \in COMPLETED_STATUSES)
    IN  SelectSeq(records, IsOpen)

\* records.sort(key=lambda r: (_priority_value(r), r.created_at))
SortByPriority(records) ==
    Elements(SortKeyed([i \in 1..Len(records) |->
        << <<priority_value(records[i]), records[i].created_at>>, records[i] >>]))

\* a slice that keeps the whole list
TakeAll(s, n) == s

\* s[:n]
Take(s, n) == SubSeq(s, 1, IF Len(s) < n THEN Len(s) ELSE n)

\* open_records.sort(key=lambda r: (_priority_value(r),
\* _status_priority(_status_value(r)), r.created_at)) (lines 327-329)
SortOpen(open_records) ==
    Elements(SortKeyed([i \in 1..Len(open_records) |->
        << <<priority_value(open_records[i]),
             status_priority(status_value(open_records[i])),
             open_records[i].created_at>>, open_records[i] >>]))

\* a selection without the fallback to the open records
SelectDailyNoFallback(recent, all_records) == SortByPriority(recent)

\* lines 322-330, from the two lists read
SelectDaily(recent, all_records) ==
    IF recent # <<>> THEN SortByPriority(recent)
    ELSE Take(SortOpen(filter_open_records(all_records)), LIST_LIMIT)

select_daily_records(tbls, days, time) ==
    SelectDaily(list_records(tbls, CATEGORIES, days, time),
                list_records(tbls, CATEGORIES, NoNumber, time))

\* lines 340-351: what the list keeps of each record shown
ListItems(shown) ==
    [i \in 1..Len(shown) |->
        [record_id |-> shown[i].id, category |-> shown[i].category,
         title |-> shown[i].title, fields |-> shown[i].fields]]

\* the list `items` of _send_digest_list
digest_items(tbls, days, time) ==
    ListItems(Take(IF days = 1 THEN select_daily_records(tbls, days, time)
                   ELSE SortByPriority(list_records(tbls, CATEGORIES, days, time)),
                   LIST_LIMIT))

\* `fields.get(k1) or fields.get(k2) or ... or ""`
RECURSIVE FirstField(_, _)
FirstField(fields, keys) ==
    IF keys = <<>> THEN <<>>
    ELSE Or(Get(fields, keys[1], <<>>), FirstField(fields, Tail(keys)))

\* _record_context
record_context(record) ==
    IF record.category = "projects"
    THEN FirstField(record.fields, <<"Next Action", "next_action", "Notes", "notes">>)
    ELSE IF record.category = "people"
    THEN FirstField(record.fields, <<"Context", "context", "Follow Ups", "follow_ups">>)
    ELSE IF record.category = "ideas"
    THEN FirstField(record.fields, <<"One Liner", "one_liner", "Notes", "notes">>)
    ELSE FirstField(record.fields, <<"Notes", "notes">>)

\* the character U+2014 of lines 239 and 347
EmDash == 8212

\* `line += f" {EmDash} {context}"` when there is a context
WithContext(line, context) ==
    IF context # <<>> THEN line \o <<32, EmDash, 32>> \o context ELSE line  \* " "

\* lines 344-348: the numbered line of a record
NumberedLine(idx, record) ==
    WithContext(IntText(idx) \o <<41, 32>> \o CategoryText(record.category)  \* ") "
                    \o <<58, 32>> \o record.title,  \* ": "
                record_context(record))

\* lines 237-241: the bullet line of a record
BulletLine(record) ==
    WithContext(<<45, 32>> \o CategoryText(record.category) \o <<58, 32>> \o record.title,  \* "- ", ": "
                record_context(record))

\* "No items found."
NoItemsFound == <<78, 111, 32, 105, 116, 101, 109, 115, 32, 102, 111, 117, 110, 100, 46>>

\* lines 341-359: the message of _send_digest_list
ListMessage(title, items) ==
    JoinLines(<<title>> \o (IF items = <<>> THEN <<NoItemsFound>>
                            ELSE [i \in 1..Len(items) |-> NumberedLine(i, items[i])]))

\* lines 235-243: the message of the extractive digest
DigestMessage(title, records) ==
    title \o <<10>> \o (IF records = <<>> THEN NoItemsFound  \* "\n"
                          ELSE JoinLines([i \in 1..Len(records) |-> BulletLine(records[i])]))

\* "[SB DIGEST] This Week"
TitleThisWeek == <<91, 83, 66, 32, 68, 73, 71, 69, 83, 84, 93, 32, 84, 104, 105, 115, 32, 87, 101, 101, 107>>

\* "[SB DIGEST] Today"
TitleToday == <<91, 83, 66, 32, 68, 73, 71, 69, 83, 84, 93, 32, 84, 111, 100, 97, 121>>

\* "[SB DIGEST] Next Focus"
TitleNextFocus == <<91, 83, 66, 32, 68, 73, 71, 69, 83, 84, 93, 32, 78, 101, 120, 116, 32, 70, 111, 99, 117, 115>>

\* "[SB DIGEST] Weekly Review"
TitleWeeklyReview == <<91, 83, 66, 32, 68, 73, 71, 69, 83, 84, 93, 32, 87, 101, 101, 107, 108, 121, 32, 82, 101, 118, 105, 101, 119>>

\* "[SB DIGEST] Daily Digest"
TitleDailyDigest == <<91, 83, 66, 32, 68, 73, 71, 69, 83, 84, 93, 32, 68, 97, 105, 108, 121, 32, 68, 105, 103, 101, 115, 116>>

\* "Weekly Review"
CliWeeklyReview == <<87, 101, 101, 107, 108, 121, 32, 82, 101, 118, 105, 101, 119>>

\* "Daily Digest"
CliDailyDigest == <<68, 97, 105, 108, 121, 32, 68, 105, 103, 101, 115, 116>>

-----------------------------------------------------------------------------
(* lambda_handler.py: the session store                                    *)

EmptyMap == [x \in {} |-> x]

\* `updated_at and updated_at < cutoff`
Expired(data, time) ==
    data.updated_at # 0 /\ data.updated_at < time - STATE_TTL_MINUTES

\* _prune_state; a state is a function room -> (person -> session data)
prune_state(st, time) ==
    LET PruneRoom(room_state) ==
            [p \in {q \in DOMAIN room_state : ~Expired(room_state[q], time)} |-> room_state[p]]
        kept == {r \in DOMAIN st : DOMAIN PruneRoom(st[r]) # {}}
    IN  [r \in kept |-> PruneRoom(st[r])]

\* state.get(room_id, {})
RoomState(st, room_id) == IF room_id \in DOMAIN st THEN st[room_id] ELSE EmptyMap

\* a store keyed by the person alone: the data is written to the person's
\* entry of every room that has one
SetSessionAllRooms(st, room_id, person_id, data) ==
    [r \in (DOMAIN st) \cup {room_id} |->
        IF r = room_id \/ person_id \in DOMAIN st[r]
        THEN [p \in (DOMAIN RoomState(st, r)) \cup {person_id} |->
                 IF p = person_id THEN data ELSE st[r][p]]
        ELSE st[r]]

\* room_state[person_id] = data; state[room_id] = room_state
SetSession(st, room_id, person_id, data) ==
    LET room_state == RoomState(st, room_id)
        new_room   == [p \in (DOMAIN room_state) \cup {person_id} |->
                           IF p = person_id THEN data ELSE room_state[p]]
    IN  [r \in (DOMAIN st) \cup {room_id} |-> IF r = room_id THEN new_room ELSE st[r]]

HasSession(st, room_id, person_id) ==
    room_id \in DOMAIN st /\ person_id \in DOMAIN st[room_id]

\* build_field_options without the fallback to the record's own field keys
build_field_options_mapped(record, property_map) ==
    [i \in 1..Len(property_map) |-> [key |-> property_map[i][1], name |-> property_map[i][2]]]

\* _build_field_options: property_map is the list of <<key, meta name>> pairs
\* of the category, empty when there is none
build_field_options(record, property_map) ==
    IF property_map # <<>>
    THEN [i \in 1..Len(property_map) |-> [key |-> property_map[i][1], name |-> property_map[i][2]]]
    ELSE [i \in 1..Len(record.fields) |-> [key |-> record.fields[i][1], name |-> record.fields[i][1]]]

-----------------------------------------------------------------------------
(* core/pipeline.py                                                        *)

\* the surrogates, which str.encode finds no bytes for
Surrogates == 55296..57343

\* the UTF-8 bytes of a character
Utf8Char(c) ==
    IF c < 128 THEN <<c>>
    ELSE IF c < 2048 THEN <<192 + (c \div 64), 128 + (c % 64)>>
    ELSE IF c < 65536
    THEN <<224 + (c \div 4096), 128 + ((c \div 64) % 64), 128 + (c % 64)>>
    ELSE <<240 + (c \div 262144), 128 + ((c \div 4096) % 64),
           128 + ((c \div 64) % 64), 128 + (c % 64)>>

\* the UTF-8 bytes of a text
RECURSIVE Utf8(_)
Utf8(value) ==
    IF value = <<>> THEN <<>> ELSE Utf8Char(value[1]) \o Utf8(Tail(value))

\* the byte at offset p (from 0) of a NUL-terminated buffer
At(bs, p) == IF p >= 0 /\ p < Len(bs) THEN bs[p + 1] ELSE 0

\* parse_digits: <<TRUE, value>> when the k bytes at offset p are digits
ParseDigits(bs, p, k) ==
    IF \A i \in 0..(k - 1) : At(bs, p + i) \in AsciiDigits
    THEN <<TRUE, DecimalValue(SubSeq(bs, p + 1, p + k))>>
    ELSE <<FALSE, 0>>

is_leap(y) == y % 4 = 0 /\ (y % 100 # 0 \/ y % 400 = 0)

DaysInMonth(y, m) ==
    IF m \in {4, 6, 9, 11} THEN 30
    ELSE IF m # 2 THEN 31
    ELSE IF is_leap(y) THEN 29
    ELSE 28

days_before_year(y) ==
    (y - 1) * 365 + ((y - 1) \div 4) - ((y - 1) \div 100) + ((y - 1) \div 400)

RECURSIVE days_before_month(_, _)
days_before_month(y, m) ==
    IF m = 1 THEN 0 ELSE days_before_month(y, m - 1) + DaysInMonth(y, m - 1)

ymd_to_ord(y, m, d) == days_before_year(y) + days_before_month(y, m) + d

\* the m-th month holds the r-th day of the year y
HoldsDay(y, m, r) ==
    days_before_month(y, m) < r /\ r <= days_before_month(y, m) + DaysInMonth(y, m)

\* the date of the r-th day of the year y, which is in its month m
DayOfMonth(y, m, r) == <<y, m, r - days_before_month(y, m)>>

DayOfYear(y, r) == DayOfMonth(y, CHOOSE m \in 1..12 : HoldsDay(y, m, r), r)

\* the date of the ordinal, n100 and n1 being the whole centuries and the
\* whole years of its cycles and y the year they give
YearOfOrdinal(ordinal, n100, n1, y) ==
    IF n1 = 4 \/ n100 = 4 THEN <<y - 1, 12, 31>>
    ELSE DayOfYear(y, ordinal - days_before_year(y))

InCentury(ordinal, n400, n100, r100) ==
    YearOfOrdinal(ordinal, n100, (r100 % 1461) \div 365,
                  n400 * 400 + n100 * 100 + (r100 \div 1461) * 4
                  + ((r100 % 1461) \div 365) + 1)

InCycle(ordinal, n400, r400) == InCentury(ordinal, n400, r400 \div 36524, r400 % 36524)

\* the date of a proleptic Gregorian ordinal (1 is 0001-01-01)
ord_to_ymd(ordinal) == InCycle(ordinal, (ordinal - 1) \div 146097, (ordinal - 1) % 146097)

\* 0 is Monday
weekday(y, m, d) == (ymd_to_ord(y, m, d) + 6) % 7

iso_week1_monday(y) ==
    LET first_day     == ymd_to_ord(y, 1, 1)
        first_weekday == (first_day + 6) % 7
    IN  IF first_weekday > 3 THEN first_day - first_weekday + 7
        ELSE first_day - first_weekday

\* the clock reads 0 at 2026-10-01T00:00 UTC; utcnow().date() as <<y, m, d>>
Today(time) == ord_to_ymd(ymd_to_ord(2026, 10, 1) + (time \div MinutesPerDay))

TwoDigits(n) == <<DigitSeq[(n \div 10) + 1], DigitSeq[(n % 10) + 1]>>

\* date.isoformat(): YYYY-MM-DD
DateIso(date) ==
    TwoDigits(date[1] \div 100) \o TwoDigits(date[1] % 100) \o <<45>>  \* "-"
    \o TwoDigits(date[2]) \o <<45>> \o TwoDigits(date[3])

\* date.isoformat() of Today
TodayIso(time) == DateIso(Today(time))

\* where the date part of the buffer ends, -1 when it cannot be told
find_isoformat_datetime_separator(bs) ==
    LET len == Len(bs)
        idx == 7 + Span(Drop(bs, 7), AsciiDigits)
    IN  IF len = 7 THEN 7
        ELSE IF At(bs, 4) = 45  \* "-"
        THEN IF At(bs, 5) = 87  \* "W"
             THEN IF len < 8 THEN -1
                  ELSE IF len > 8 /\ At(bs, 8) = 45  \* "-"
                  THEN IF len = 9 THEN -1
                       ELSE IF len > 10 /\ At(bs, 10) \in AsciiDigits THEN 8
                       ELSE 10
                  ELSE 8
             ELSE 10
        ELSE IF At(bs, 4) = 87  \* "W"
        THEN IF idx < 9 THEN idx
             ELSE IF idx % 2 = 0 THEN 7
             ELSE 8
        ELSE 8

\* the week form of a date read as week and day, the year being year
WeekDay(year, week, day) ==
    IF week <= 0 \/ week > 53
       \/ (week = 53 /\ ~(weekday(year, 1, 1) = 3
                          \/ (weekday(year, 1, 1) = 2 /\ is_leap(year))))
    THEN <<FALSE, <<>>>>
    ELSE IF day <= 0 \/ day >= 8 THEN <<FALSE, <<>>>>
    ELSE IF year < 1 THEN <<TRUE, <<0, 12, 31>>>>
    ELSE <<TRUE, ord_to_ymd(iso_week1_monday(year) + (week - 1) * 7 + day - 1)>>

\* the week form of a date, after the W at offset p - 1; more tells that a
\* day follows the week
WeekForm(bs, year, p, uses_separator, more, week, day) ==
    IF ~week[1] THEN <<FALSE, <<>>>>
    ELSE IF more /\ uses_separator /\ At(bs, p + 2) # 45 THEN <<FALSE, <<>>>>  \* "-"
    ELSE IF ~day[1] THEN <<FALSE, <<>>>>
    ELSE WeekDay(year, week[2], day[2])

IsoWeekDate(bs, len, year, p, uses_separator) ==
    WeekForm(bs, year, p, uses_separator, p + 2 < len, ParseDigits(bs, p, 2),
             IF p + 2 < len
             THEN ParseDigits(bs, IF uses_separator THEN p + 3 ELSE p + 2, 1)
             ELSE <<TRUE, 1>>)

\* the date part, the year being read: p is the offset of the month
DateForm(bs, len, year, uses_separator, p) ==
    IF ~year[1] THEN <<FALSE, <<>>>>
    ELSE IF At(bs, p) = 87 THEN IsoWeekDate(bs, len, year[2], p + 1, uses_separator)  \* "W"
    ELSE IF ~ParseDigits(bs, p, 2)[1] THEN <<FALSE, <<>>>>
    ELSE IF uses_separator /\ At(bs, p + 2) # 45 THEN <<FALSE, <<>>>>  \* "-"
    ELSE IF ~ParseDigits(bs, IF uses_separator THEN p + 3 ELSE p + 2, 2)[1]
    THEN <<FALSE, <<>>>>
    ELSE <<TRUE, <<year[2], ParseDigits(bs, p, 2)[2],
                   ParseDigits(bs, IF uses_separator THEN p + 3 ELSE p + 2, 2)[2]>>>>

\* the date part of the buffer, len bytes long: <<TRUE, <<y, m, d>>>> with the
\* numbers as written, or <<FALSE, <<>>>>
parse_isoformat_date(bs, len) ==
    DateForm(bs, len, ParseDigits(bs, 0, 4), At(bs, 4) = 45,  \* "-"
             IF At(bs, 4) = 45 THEN 5 ELSE 4)

\* the fraction of a second from offset p: <<rv, vals>>, rv 1 when the buffer
\* goes on after it and -1 when it is not digits
FractionEnd(bs, q, vals) == <<IF At(bs, q) # 0 THEN 1 ELSE 0, vals>>

FractionOf(bs, p, to_parse, vals) ==
    IF ~ParseDigits(bs, p, to_parse)[1] THEN <<-1, vals>>
    ELSE FractionEnd(bs, p + to_parse + Span(Drop(bs, p + to_parse), AsciiDigits), vals)

ParseFraction(bs, p, p_end, vals) ==
    FractionOf(bs, p, IF p_end - p >= 6 THEN 6 ELSE p_end - p, vals)

\* [HH[:?MM[:?SS]]] and a fraction, from offset p up to p_end: <<rv, vals>>
\* with vals the numbers read so far
RECURSIVE parse_hh_mm_ss_ff(_, _, _, _, _, _)
RECURSIVE AfterNumber(_, _, _, _, _, _, _)
parse_hh_mm_ss_ff(bs, p, p_end, i, has_separator, vals) ==
    IF i = 3 THEN ParseFraction(bs, p, p_end, vals)
    ELSE IF ~ParseDigits(bs, p, 2)[1] THEN <<-1, vals>>
    ELSE AfterNumber(bs, p, p_end, i, At(bs, p + 2),
                     IF i = 0 THEN At(bs, p + 2) = 58 ELSE has_separator,  \* ":"
                     Append(vals, ParseDigits(bs, p, 2)[2]))

\* the rest of the loop body, the number at offset p being read: c is the
\* byte after it, sep tells that the fields are separated by colons
AfterNumber(bs, p, p_end, i, c, sep, read) ==
    IF p + 3 >= p_end THEN <<IF c # 0 THEN 1 ELSE 0, read>>
    ELSE IF sep /\ c = 58 THEN parse_hh_mm_ss_ff(bs, p + 3, p_end, i + 1, sep, read)  \* ":"
    ELSE IF c \in {46, 44} THEN ParseFraction(bs, p + 3, p_end, read)  \* ".", ","
    ELSE IF ~sep THEN parse_hh_mm_ss_ff(bs, p + 2, p_end, i + 1, sep, read)
    ELSE <<-1, read>>

\* the n-th number of vals, 0 when it was not written
Field(vals, n) == IF n <= Len(vals) THEN vals[n] ELSE 0

\* the datetime constructor accepts the hour, the minute and the second
InDay(vals) == Field(vals, 1) <= 23 /\ Field(vals, 2) <= 59 /\ Field(vals, 3) <= 59

\* the offset has parsed and the timezone constructor accepts it
ZoneParsed(tz) ==
    tz[1] = 0 /\ Field(tz[2], 1) * 3600 + Field(tz[2], 2) * 60 + Field(tz[2], 3) < 86400

\* the time part bs, whose offset begins at tzpos, its time being read
TimeParsed(bs, tzpos, time) ==
    IF time[1] < 0 THEN FALSE
    ELSE IF tzpos = Len(bs) THEN time[1] = 0 /\ InDay(time[2])
    ELSE IF bs[tzpos + 1] = 90 THEN At(bs, tzpos + 1) = 0 /\ InDay(time[2])  \* "Z"
    ELSE InDay(time[2]) /\ ZoneParsed(parse_hh_mm_ss_ff(bs, tzpos + 1, Len(bs), 0, TRUE, <<>>))

TimeFrom(bs, tzpos) ==
    bs # <<>> /\ TimeParsed(bs, tzpos, parse_hh_mm_ss_ff(bs, 0, tzpos, 0, TRUE, <<>>))

\* the time part of the buffer: TRUE when it parses and the datetime and
\* timezone constructors accept its numbers
parse_isoformat_time(bs) == TimeFrom(bs, SpanNot(bs, {90, 43, 45}))  \* "Z", "+", "-"

\* the date constructor on the numbers that were read
Constructed(date) ==
    IF date[1] < 1 \/ date[1] > 9999 \/ date[2] < 1 \/ date[2] > 12
       \/ date[3] < 1 \/ date[3] > DaysInMonth(date[1], date[2])
    THEN <<FALSE, <<>>>>
    ELSE <<TRUE, date>>

\* the bytes of the character whose first byte is b
CharWidth(b) ==
    IF b < 128 THEN 1 ELSE IF b \div 16 = 14 THEN 3 ELSE IF b \div 16 = 15 THEN 4 ELSE 2

\* the buffer whose date part, sep bytes long, is read as date: the time
\* part is what follows the separator, which is one character
DateAndTime(bs, sep, date) ==
    IF ~date[1] THEN <<FALSE, <<>>>>
    ELSE IF Len(bs) > sep /\ ~parse_isoformat_time(Drop(bs, sep + CharWidth(At(bs, sep))))
    THEN <<FALSE, <<>>>>
    ELSE Constructed(date[2])

ParsedFrom(bs, sep) ==
    IF Len(bs) < 7 \/ sep < 0 THEN <<FALSE, <<>>>>
    ELSE DateAndTime(bs, sep, parse_isoformat_date(bs, sep))

\* the buffer is parsed
ParsedBytes(bs) == ParsedFrom(bs, find_isoformat_datetime_separator(bs))

\* the text has a surrogate at offset p (from 0)
SurrogateAt(value, p) == p < Len(value) /\ value[p + 1] \in Surrogates

\* _sanitize_isoformat_str: the first of the offsets 7, 8 and 10 that holds
\* a surrogate gets a T in its place
Sanitized(value) ==
    IF SurrogateAt(value, 7) THEN [value EXCEPT ![8] = 84]
    ELSE IF SurrogateAt(value, 8) THEN [value EXCEPT ![9] = 84]
    ELSE IF SurrogateAt(value, 10) THEN [value EXCEPT ![11] = 84]
    ELSE value

\* the text after _sanitize_isoformat_str is parsed from its UTF-8 bytes,
\* which it does not have when a surrogate is left in it
ParsedClean(clean) ==
    IF \E i \in 1..Len(clean) : clean[i] \in Surrogates THEN <<FALSE, <<>>>>
    ELSE ParsedBytes(Utf8(clean))

\* datetime.fromisoformat(value).date(): <<TRUE, <<y, m, d>>>>, or <<FALSE, <<>>>>
\* for ValueError
ParseIsoDate(value) ==
    IF Len(value) < 7 THEN <<FALSE, <<>>>> ELSE ParsedClean(Sanitized(value))

is_valid_date(value) == value # <<>> /\ ParseIsoDate(value)[1]

\* the date that was parsed is not before the day of the clock
NotBefore(parsed, time) == parsed[1] /\ ~KeyLess(parsed[2], Today(time))

is_reasonable_due_date(value, time) == value # <<>> /\ NotBefore(ParseIsoDate(value), time)

\* a coercion of the invalid categories to `ideas`
CoercedToIdeas(result) ==
    IF result.category \notin VALID_CATEGORIES THEN "ideas" ELSE result.category

\* lines 41-50: the category the gate goes on with
EffectiveCategory(result) ==
    IF result.category \notin VALID_CATEGORIES THEN "admin" ELSE result.category

\* the confidence without the cap of line 46
UncappedConfidence(result) == result.confidence

\* lines 41-50: the confidence the gate goes on with (0.4 is 40 hundredths)
EffectiveConfidence(result) ==
    IF result.category \notin VALID_CATEGORIES
    THEN (IF result.confidence < 40 THEN result.confidence ELSE 40)
    ELSE result.confidence

\* line 62
BelowThreshold(confidence, threshold) == confidence < threshold

\* lines 52-60; record_id is <<>> until line 81 sets it
LogEntry(item, result, status, record_id, time) ==
    [source_id |-> item.item_id, source |-> item.source, captured_text |-> item.text,
     category |-> EffectiveCategory(result), title |-> result.title,
     confidence |-> EffectiveConfidence(result), timestamp |-> time,
     status |-> status, record_id |-> record_id]

\* record fields that keep the due_date whatever it is
RecordFieldsKeepDue(result, time) ==
    LET f0 == result.fields
        f1 == IF ~HasKey(f0, "name") /\ ~HasKey(f0, "title")
              THEN Put(f0, "name", result.title) ELSE f0
    IN  IF EffectiveCategory(result) = "people"
        THEN Put(f1, "last_touched", TodayIso(time)) ELSE f1

\* lines 70-78
RecordFields(result, time) ==
    LET f0 == result.fields
        f1 == IF ~HasKey(f0, "name") /\ ~HasKey(f0, "title")
              THEN Put(f0, "name", result.title) ELSE f0
        f2 == IF EffectiveCategory(result) = "people"
              THEN Put(f1, "last_touched", TodayIso(time)) ELSE f1
    IN  IF EffectiveCategory(result) = "admin"
           /\ ~is_reasonable_due_date(Get(f2, "due_date", <<>>), time)
        THEN Put(f2, "due_date", <<>>) ELSE f2

\* f"{confidence:.2f}" of a confidence counted in hundredths
ConfidenceText(confidence) ==
    IntText(confidence \div 100) \o <<46>> \o TwoDigits(confidence % 100)  \* "."

\* a filed notification with the words of the needs-review one
FiledAsReview(category, title, confidence) ==
    <<78, 101, 101, 100, 115, 32, 114, 101, 118, 105, 101, 119, 58, 32, 39>> \o title \o <<39, 32, 40>> \o CategoryText(category)  \* "Needs review: '", "' ("
        \o <<44, 32>> \o ConfidenceText(confidence) \o <<41, 46>>  \* ")."

\* line 84: f"Filed as {category}: {stored_record.title} ({result.confidence:.2f})."
FiledText(category, title, confidence) ==
    <<70, 105, 108, 101, 100, 32, 97, 115, 32>> \o CategoryText(category) \o <<58, 32>> \o title  \* "Filed as ", ": "
        \o <<32, 40>> \o ConfidenceText(confidence) \o <<41, 46>>  \* " (", ")."

\* line 66: f"Needs review: '{result.title}' ({category}, {result.confidence:.2f})."
NeedsReviewText(title, category, confidence) ==
    <<78, 101, 101, 100, 115, 32, 114, 101, 118, 105, 101, 119, 58, 32, 39>> \o title \o <<39, 32, 40>> \o CategoryText(category)  \* "Needs review: '", "' ("
        \o <<44, 32>> \o ConfidenceText(confidence) \o <<41, 46>>  \* ")."

\* build_digest, line 103: the title, a newline and the AI's summary
build_digest(title, summary) == title \o <<10>> \o summary  \* "\n"

\* one collaborator call, as a test double would record it
Call(op, category, record_id, key, value) ==
    [op |-> op, category |-> category, record_id |-> record_id, key |-> key, value |-> value]

\* Pipeline._handle_classification on the world w = [tables, inbox_log, uuids,
\* calls, posts, raised]; fault names the collaborator call that raises, if any.
\* The result is the world afterwards and ret, the list holding the returned
\* StoredRecord (empty for None or an exception).
\* fields is the record of lines 64-77.
Classified(w, item, result, fault, threshold, time, fields) ==
    LET category   == EffectiveCategory(result)
        confidence == EffectiveConfidence(result)
        review     == LogEntry(item, result, "needs_review", <<>>, time)
        record_id  == w.uuids + 1
        row        == StoreRow(category, fields, record_id, time)
        filed      == LogEntry(item, result, "filed", <<record_id>>, time)
        log_call   == Call("log_inbox", category, 0, "", <<>>)
        store_call == Call("store", category, 0, "", <<>>)
    IN  IF BelowThreshold(confidence, threshold)
        THEN IF fault = "log_inbox"
             THEN [w |-> [w EXCEPT !.calls = Append(@, log_call), !.raised = TRUE],
                   ret |-> <<>>]
             ELSE IF fault = "notify"
             THEN [w |-> [w EXCEPT !.inbox_log = log_inbox(@, review),
                                   !.calls = Append(@, log_call), !.raised = TRUE],
                   ret |-> <<>>]
             ELSE [w |-> [w EXCEPT !.inbox_log = log_inbox(@, review),
                                   !.calls = Append(@, log_call),
                                   !.posts = Append(@, NeedsReviewText(result.title, category,
                                                                    confidence))],
                   ret |-> <<>>]
        ELSE IF fault = "store"
             THEN [w |-> [w EXCEPT !.calls = Append(@, store_call), !.raised = TRUE],
                   ret |-> <<>>]
             ELSE IF fault = "log_inbox"
             THEN [w |-> [w EXCEPT !.tables = store(@, category, fields, record_id, time),
                                   !.uuids = record_id,
                                   !.calls = @ \o <<store_call, log_call>>,
                                   !.raised = TRUE],
                   ret |-> <<>>]
             ELSE IF fault = "notify"
             THEN [w |-> [w EXCEPT !.tables = store(@, category, fields, record_id, time),
                                   !.uuids = record_id,
                                   !.inbox_log = log_inbox(@, filed),
                                   !.calls = @ \o <<store_call, log_call>>,
                                   !.raised = TRUE],
                   ret |-> <<>>]
             ELSE [w |-> [w EXCEPT !.tables = store(@, category, fields, record_id, time),
                                   !.uuids = record_id,
                                   !.inbox_log = log_inbox(@, filed),
                                   !.calls = @ \o <<store_call, log_call>>,
                                   !.posts = Append(@, FiledText(category, row.title, confidence))],
                   ret |-> <<StoredRecord(row)>>]

handle_classification(w, item, result, fault, threshold, time) ==
    Classified(w, item, result, fault, threshold, time, RecordFields(result, time))

\* the loop of Pipeline.run over the fetched items; outcomes[i] is what the AI
\* answers for the i-th of them (result) and the call that raises (fault, "ai"
\* for classify itself).  The loop ends at the first exception.
RECURSIVE RunItems(_, _, _, _, _, _)
RunItems(w, items, outcomes, acc, threshold, time) ==
    IF items = <<>> \/ w.raised THEN [w |-> w, stored |-> acc]
    ELSE IF Head(outcomes).fault = "ai"
    THEN [w |-> [w EXCEPT !.raised = TRUE], stored |-> acc]
    ELSE LET h == handle_classification(w, Head(items), Head(outcomes).result,
                                        Head(outcomes).fault, threshold, time)
         IN  RunItems(h.w, Tail(items), Tail(outcomes), acc \o h.ret, threshold, time)

\* adapters/capture_queue.py: the payload enqueue appends to the queue
QueueItem(text, source, item_id, created_at) ==
    [item_id |-> item_id, text |-> text, source |-> source, created_at |-> created_at]

enqueue(q, text, source, item_id, created_at) ==
    Append(q, QueueItem(text, source, item_id, created_at))

-----------------------------------------------------------------------------
(* the bounds of the model and the inputs it draws                         *)

\* the clock at the start, in minutes after 2026-10-01T00:00 UTC
EpochStart == 5000

\* minutes that pass in one Tick
ClockStep == 16

\* Ticks in a behaviour
MaxTicks == 2

\* webhook deliveries in a behaviour
MaxMsgs == 2

\* captures in a behaviour of the pipeline specification
MaxItems == 2

\* the senders: <<roomId, personId>>
Senders == { <<"r1", "p1">>, <<"r2", "p1">>, <<"r1", "p2">> }

MessageIds == {"m1", "m2"}

\* "cancel"
TxtCancel == <<99, 97, 110, 99, 101, 108>>

\* "@sb: Update Cancel"
TxtUpdateCancel == <<64, 115, 98, 58, 32, 85, 112, 100, 97, 116, 101, 32, 67, 97, 110, 99, 101, 108>>

\* "today"
TxtToday == <<116, 111, 100, 97, 121>>

\* "this week?"
TxtWeek == <<116, 104, 105, 115, 32, 119, 101, 101, 107, 63>>

\* "bot: help"
TxtHelp == <<98, 111, 116, 58, 32, 104, 101, 108, 112>>

\* "update 0"
TxtUpdate0 == <<117, 112, 100, 97, 116, 101, 32, 48>>

\* "update 1"
TxtUpdate1 == <<117, 112, 100, 97, 116, 101, 32, 49>>

\* "update: 2"
TxtUpdate2 == <<117, 112, 100, 97, 116, 101, 58, 32, 50>>

\* "update -1"
TxtUpdateNeg == <<117, 112, 100, 97, 116, 101, 32, 45, 49>>

\* "1"
TxtNum1 == <<49>>

\* "2."
TxtNum2 == <<50, 46>>

\* "9"
TxtNum9 == <<57>>

\* "1 New Value"
TxtNum1Val == <<49, 32, 78, 101, 119, 32, 86, 97, 108, 117, 101>>

\* "2) ok"
TxtNum2Val == <<50, 41, 32, 111, 107>>

\* "fix: project"
TxtFix == <<102, 105, 120, 58, 32, 112, 114, 111, 106, 101, 99, 116>>

\* "buy milk"
TxtFree == <<98, 117, 121, 32, 109, 105, 108, 107>>

\* "Filed as x"
TxtSystem == <<70, 105, 108, 101, 100, 32, 97, 115, 32, 120>>

\* " "
TxtBlank == <<32>>

\* "New Value"
ValNew == <<78, 101, 119, 32, 86, 97, 108, 117, 101>>

\* a numeral of one digit more than int() takes
LongNumeral == [i \in 1..(MaxStrDigits + 1) |-> 57]  \* "9"

\* `update ` and the long numeral
TxtUpdateLong == <<117, 112, 100, 97, 116, 101, 32>> \o LongNumeral

\* the long numeral as a field number
TxtNumLong == LongNumeral

\* "ok"
ValOk == <<111, 107>>

\* "u@x.io"
UserEmail == <<117, 64, 120, 46, 105, 111>>

\* "x@webex.bot"
RelayEmail == <<120, 64, 119, 101, 98, 101, 120, 46, 98, 111, 116>>

\* the texts the first sender sends
Texts ==
    { TxtCancel, TxtUpdateCancel, TxtToday, TxtWeek, TxtHelp,
      TxtUpdate0, TxtUpdate1, TxtUpdate2, TxtUpdateNeg, TxtNum1,
      TxtNum2, TxtNum9, TxtNum1Val, TxtNum2Val, TxtFix,
      TxtFree, TxtSystem, TxtUpdateLong, TxtNumLong }

\* a messages/created delivery with the message _webex_get_message returns for
\* it; parent is the list holding the text of the parent message, empty when
\* the message has no parentId
Delivery(id, sender, text, parent, personType) ==
    [id |-> id, roomId |-> sender[1], personId |-> sender[2], text |-> text,
     parent |-> parent, personType |-> personType, personEmail |-> UserEmail]

\* a message of type person whose author is the bot by its id, by its
\* configured email, or by an email of the bot domain
BotAuthored(text) ==
    { Delivery("m1", <<"r1", WEBEX_BOT_ID>>, text, <<>>, "person"),
      [Delivery("m1", <<"r1", "p1">>, text, <<>>, "person")
          EXCEPT !.personEmail = WEBEX_BOT_EMAIL],
      [Delivery("m1", <<"r1", "p1">>, text, <<>>, "person")
          EXCEPT !.personEmail = RelayEmail] }

\* the texts the second sender sends
OtherTexts == { TxtCancel, TxtToday, TxtUpdate1, TxtNum1, TxtFree }

\* the texts the third sender sends
ThirdTexts == { TxtToday, TxtUpdate1 }

\* the free text with white space around it
TxtPadded == <<32>> \o TxtFree \o <<32>>  \* " "

\* what _webex_get_message finds as the text of the parent of a reply
ParentTexts == { <<TxtFree>>, <<TxtPadded>>, <<TxtBlank>>, << <<>> >> }

Deliveries ==
    {Delivery("m1", <<"r1", "p1">>, t, <<>>, "person") : t \in Texts}
    \cup {Delivery("m1", <<"r2", "p1">>, t, <<>>, "person") : t \in OtherTexts}
    \cup {Delivery("m2", <<"r1", "p1">>, TxtFree, <<>>, "person")}
    \cup {Delivery("m1", <<"r1", "p1">>, TxtFix, p, "person") : p \in ParentTexts}
    \cup {Delivery("m1", <<"r1", "p2">>, t, <<>>, "person") : t \in ThirdTexts}
    \cup {Delivery("m1", <<"r1", "p1">>, t, <<>>, "bot") : t \in {TxtFree, TxtToday}}
    \cup BotAuthored(TxtFree)
    \cup {Delivery("m1", <<"r1", "p1">>, t, <<>>, "person") : t \in {TxtBlank, <<>>}}

\* what the parsers and tests of handler make of a text
Parse(text) ==
    [is_system_message |-> is_system_message(text), is_cancel |-> is_cancel(text),
     update_request |-> parse_update_request(text),
     field_selection |-> parse_field_selection(text),
     command |-> parse_command(text), fix_category |-> parse_fix_category(text)]

\* Parse, worked out once for the texts of the deliveries
ParseTable == [t \in {Strip(d.text) : d \in Deliveries} |-> Parse(t)]

Parsed(text) == IF text \in DOMAIN ParseTable THEN ParseTable[text] ELSE Parse(text)

\* what the AI answers
Classification(category, confidence, title, fields) ==
    [category |-> category, confidence |-> confidence, title |-> title, fields |-> fields]

PastDate == <<50, 48, 50, 54, 45, 48, 57, 45, 51, 48>>  \* "2026-09-30"

FutureDate == <<50, 48, 50, 54, 45, 49, 50, 45, 51, 49>>  \* "2026-12-31"

\* the day of EpochStart
TodayDate == <<50, 48, 50, 54, 45, 49, 48, 45, 48, 52>>  \* "2026-10-04"

\* the thirtieth of February
BadDate == <<50, 48, 50, 54, 45, 48, 50, 45, 51, 48>>  \* "2026-02-30"

\* the answers the pipeline specification draws from; the adapters return
\* float(data.get("confidence", 0.0)) of the AI's JSON as it is, 1.5 included
GateResults ==
    { Classification(c, x, ValOk, f) :
        c \in {"projects", "people", "admin", "misc"}, x \in {30, 60, 95, 150},
        f \in { <<>>, << <<"title", ValNew>>, <<"due_date", PastDate>> >>,
                << <<"name", <<>>>>, <<"due_date", FutureDate>> >>,
                << <<"due_date", TodayDate>> >>, << <<"due_date", BadDate>> >> } }

\* the pipeline specification's outcomes of one item: any answer with every
\* collaborator working, and the answers without fields with one of them failing
GateOutcomes ==
    { [result |-> r, fault |-> "none"] : r \in GateResults }
    \cup { [result |-> r, fault |-> e] :
             r \in {x \in GateResults : x.fields = <<>>},
             e \in {"ai", "store", "log_inbox", "notify"} }

\* the handler specification's outcomes of one item
HandlerOutcomes ==
    { [result |-> Classification("projects", 80, ValOk, <<>>), fault |-> "none"],
      [result |-> Classification("misc", 80, ValOk, <<>>), fault |-> "none"],
      [result |-> Classification("admin", 95, ValOk, <<>>), fault |-> "log_inbox"] }

\* the records the handler specification may start with: a project filed ten
\* minutes ago and an admin task filed two days ago
SeedTables ==
    [EmptyTables EXCEPT
        !["projects"] = << StoreRow("projects",
                              << <<"name", <<83, 104, 105, 112>>>>, <<"status", <<97, 99, 116, 105, 118, 101>>>>,  \* "Ship", "active"
                                 <<"next_action", ValOk>>, <<"notes", <<>>>> >>,
                              1, EpochStart - 10) >>,
        !["admin"]    = << StoreRow("admin",
                              << <<"name", <<80, 97, 121>>>>, <<"status", <<111, 112, 101, 110>>>>,  \* "Pay", "open"
                                 <<"due_date", <<>>>>, <<"notes", ValOk>> >>,
                              2, EpochStart - 2 * MinutesPerDay) >> ]

\* number of rows of the tables
RowCount(tbls) == Len(RowsOf(tbls, CATEGORIES))

\* os.environ WEBEX_WEBHOOK_SECRET of a deployment that has one
WEBEX_WEBHOOK_SECRET == "k1"

Config(threshold, run_pipeline) ==
    [confidence_threshold |-> threshold, run_pipeline |-> run_pipeline,
     webhook_secret |-> WEBEX_WEBHOOK_SECRET]

\* the configuration of a deployment without WEBEX_WEBHOOK_SECRET
Unsecured(c) == [c EXCEPT !.webhook_secret = ""]

-----------------------------------------------------------------------------
(* lambda_handler.py: handler                                              *)

\* config.storage.settings.get("property_map", {}).get(category) of the
\* deployment: JsonStorage takes only base_dir, so its settings hold no
\* property map and every category reads as having none
PROPERTY_MAP == [c \in VALID_CATEGORIES |-> <<>>]

\* a session's data
Session(updated_at, last_list, pending_update) ==
    [updated_at |-> updated_at, last_list |-> last_list, pending_update |-> pending_update]

\* the pending_update of lines 539-544; field_key and field_name are "" until
\* lines 493-494 set them
PendingUpdate(selected, options) ==
    [record_id |-> selected.record_id, category |-> selected.category,
     fields |-> options, awaiting_value |-> FALSE, field_key |-> "", field_name |-> ""]

\* what one invocation leaves behind and answers
Outcome(st, tbls, log, q, pids, uu, branch, status, body, posts, calls, enqueued, raised) ==
    [state |-> st, tables |-> tbls, inbox_log |-> log, queue |-> q,
     processed_ids |-> pids, uuids |-> uu,
     branch |-> branch, status |-> status, body |-> body,
     posts |-> posts, calls |-> calls, enqueued |-> enqueued, raised |-> raised]

\* a reply that leaves everything stored as it is: the stored state is not
\* saved, so neither the prune nor a new updated_at reaches it
Reply(d, S, branch, body, post) ==
    Outcome(S.state, S.tables, S.inbox_log, S.queue, S.processed_ids, S.uuids,
            branch, 200, body, <<post>>, <<>>, <<>>, FALSE)

\* a cancel that drops the sender's whole session
CancelBranchPop(d, S) ==
    LET has  == HasSession(S.state, d.roomId, d.personId)
        room == [p \in (DOMAIN S.state[d.roomId]) \ {d.personId} |-> S.state[d.roomId][p]]
        st   == IF has THEN [S.state EXCEPT ![d.roomId] = room] ELSE S.state
    IN  Outcome(st, S.tables, S.inbox_log, S.queue, S.processed_ids, S.uuids,
                "cancel", 200, "update canceled", <<"Update canceled.">>, <<>>, <<>>, FALSE)

\* a cancel without the test of line 453: a sender without a session gets one
CancelBranchAlways(d, S) ==
    LET has == HasSession(S.state, d.roomId, d.personId)
        st  == IF has
               THEN [S.state EXCEPT ![d.roomId][d.personId] =
                        [@ EXCEPT !.pending_update = <<>>, !.updated_at = S.now]]
               ELSE SetSession(S.state, d.roomId, d.personId, Session(S.now, <<>>, <<>>))
    IN  Outcome(st, S.tables, S.inbox_log, S.queue, S.processed_ids, S.uuids,
                "cancel", 200, "update canceled", <<"Update canceled.">>, <<>>, <<>>, FALSE)

\* lines 449-458
CancelBranch(d, S) ==
    LET has == HasSession(S.state, d.roomId, d.personId)
        st  == IF has
               THEN [S.state EXCEPT ![d.roomId][d.personId] =
                        [@ EXCEPT !.pending_update = <<>>, !.updated_at = S.now]]
               ELSE S.state
    IN  Outcome(st, S.tables, S.inbox_log, S.queue, S.processed_ids, S.uuids,
                "cancel", 200, "update canceled", <<"Update canceled.">>, <<>>, <<>>, FALSE)

\* a session that keeps its pending_update after the update
ClearedKeep(person_state, time) == [person_state EXCEPT !.updated_at = time]

\* lines 476-477 and 510-511: the session after the update
Cleared(person_state, time) ==
    [person_state EXCEPT !.pending_update = <<>>, !.updated_at = time]

\* an update that saves the session without its pending_update before it
\* calls update_record
ApplyUpdateSavedFirst(d, S, st, person_state, pending, key, value, update_fails, branch) ==
    LET call  == Call("update_record", pending.category, pending.record_id, key, value)
        found == RecordFound(S.tables, pending.category, pending.record_id)
        data  == Cleared(person_state, S.now)
    IN  IF update_fails \/ ~found
        THEN Outcome(SetSession(st, d.roomId, d.personId, data), S.tables, S.inbox_log,
                     S.queue, S.processed_ids, S.uuids,
                     branch, 500, "exception", <<>>, <<call>>, <<>>, TRUE)
        ELSE Outcome(SetSession(st, d.roomId, d.personId, data),
                     update_record(S.tables, pending.category, pending.record_id, key, value),
                     S.inbox_log, S.queue, S.processed_ids, S.uuids,
                     branch, 200, "updated", <<"Updated">>, <<call>>, <<>>, FALSE)

\* lines 473-480 and 507-514: update_record, then the session is saved without
\* its pending_update; update_fails says that update_record raises
ApplyUpdate(d, S, st, person_state, pending, key, value, update_fails, branch) ==
    LET call  == Call("update_record", pending.category, pending.record_id, key, value)
        found == RecordFound(S.tables, pending.category, pending.record_id)
        data  == Cleared(person_state, S.now)
    IN  IF update_fails \/ ~found
        THEN Outcome(S.state, S.tables, S.inbox_log, S.queue, S.processed_ids, S.uuids,
                     branch, 500, "exception", <<>>, <<call>>, <<>>, TRUE)
        ELSE Outcome(SetSession(st, d.roomId, d.personId, data),
                     update_record(S.tables, pending.category, pending.record_id, key, value),
                     S.inbox_log, S.queue, S.processed_ids, S.uuids,
                     branch, 200, "updated", <<"Updated">>, <<call>>, <<>>, FALSE)

\* a pin that leaves awaiting_value as it was
PinNoAwait(pending, field) ==
    [pending EXCEPT !.field_key = field.key, !.field_name = field.name]

\* a pin that awaits the value without setting the key of the field
PinWithoutKey(pending, field) ==
    [pending EXCEPT !.field_name = field.name, !.awaiting_value = TRUE]

\* lines 493-495: the pending_update with the chosen field pinned
Pin(pending, field) ==
    [pending EXCEPT !.field_key = field.key, !.field_name = field.name,
                    !.awaiting_value = TRUE]

\* int() raised in _parse_update_request or _parse_field_selection: nothing
\* in handler catches the ValueError, and the invocation ends with it before
\* anything is posted or saved
ParserRaised(S, branch) ==
    Outcome(S.state, S.tables, S.inbox_log, S.queue, S.processed_ids, S.uuids,
            branch, 500, "exception", <<>>, <<>>, <<>>, TRUE)

\* lines 482-514
FieldSelectionBranch(d, S, st, person_state, pending, selection, value, update_fails) ==
    LET fields    == pending.fields
        field     == fields[selection]
        pinned    == [person_state EXCEPT !.pending_update = <<Pin(pending, field)>>,
                                          !.updated_at = S.now]
    IN  IF selection = ValueError THEN ParserRaised(S, "field_selection")
        ELSE IF selection = NoNumber
        THEN Reply(d, S, "field_selection", "awaiting field selection",
                   "Reply with a field number")
        ELSE IF selection < 1 \/ selection > Len(fields)
        THEN Reply(d, S, "field_selection", "field selection out of range",
                   "That number is out of range. Try again.")
        ELSE IF value = <<>>
        THEN Outcome(SetSession(st, d.roomId, d.personId, pinned),
                     S.tables, S.inbox_log, S.queue, S.processed_ids, S.uuids,
                     "field_selection", 200, "awaiting update value",
                     <<"Send the new value">>, <<>>, <<>>, FALSE)
        ELSE ApplyUpdate(d, S, st, person_state, pending, field.key, value,
                         update_fails, "field_selection")

\* lines 516-549
UpdateRequestBranch(d, S, st, has, person_state, update_request) ==
    LET last_list == IF has THEN person_state.last_list ELSE <<>>
        selected  == last_list[update_request]
        options   == build_field_options(selected, PROPERTY_MAP[selected.category])
        data      == Session(S.now, last_list, <<PendingUpdate(selected, options)>>)
    IN  IF update_request = ValueError THEN ParserRaised(S, "update_request")
        ELSE IF last_list = <<>>
        THEN Reply(d, S, "update_request", "missing list", "No recent list found.")
        ELSE IF update_request < 1 \/ update_request > Len(last_list)
        THEN Reply(d, S, "update_request", "update selection out of range",
                   "That number is out of range. Try again.")
        ELSE Outcome(SetSession(st, d.roomId, d.personId, data),
                     S.tables, S.inbox_log, S.queue, S.processed_ids, S.uuids,
                     "update_request", 200, "update prompt sent",
                     <<"Choose a field to update">>, <<>>, <<>>, FALSE)

\* lines 341-371: the message is posted and the list stored as the sender's
\* session
ListSent(d, S, items, title, body) ==
    Outcome(SetSession(prune_state(S.state, S.now), d.roomId, d.personId,
                       Session(S.now, items, <<>>)),
            S.tables, S.inbox_log, S.queue, S.processed_ids, S.uuids,
            "command", 200, body, <<ListMessage(title, items)>>, <<>>, <<>>, FALSE)

\* _send_digest_list (lines 333-371), called at lines 560-567
send_digest_list(d, S, days, title, body) ==
    ListSent(d, S, digest_items(S.tables, days, S.now), title, body)

\* lines 551-567
CommandBranch(d, S, command) ==
    IF command = "help"
    THEN Reply(d, S, "command", "help sent", "[SB HELP]")
    ELSE send_digest_list(d, S,
            IF command = "week" THEN 7 ELSE IF command = "today" THEN 1 ELSE 14,
            IF command = "week" THEN TitleThisWeek
            ELSE IF command = "today" THEN TitleToday ELSE TitleNextFocus,
            IF command = "week" THEN "weekly digest sent"
            ELSE IF command = "today" THEN "daily digest sent" ELSE "next digest sent")

\* the invocation's outcome after _run_pipeline left the world w (an exception
\* of the run leaves handler as a 500)
AfterRun(S, pids, text, branch, body, w) ==
    Outcome(S.state, w.tables, w.inbox_log, <<>>, pids, w.uuids,
            branch, IF w.raised THEN 500 ELSE 200,
            IF w.raised THEN "exception" ELSE body,
            w.posts, w.calls, <<text>>, w.raised)

\* _enqueue_text, then _run_pipeline when SB_RUN_PIPELINE is "true" (lines
\* 578-582 and 589-597); pids is the processed-id set to leave behind
EnqueueAndRun(S, pids, text, outcomes, branch, body) ==
    LET item_id == S.uuids + 1
        q       == enqueue(S.queue, text, "webex", item_id, S.now)
        w0      == [tables |-> S.tables, inbox_log |-> S.inbox_log, uuids |-> item_id,
                    calls |-> <<>>, posts |-> <<>>, raised |-> FALSE]
    IN  IF ~S.config.run_pipeline
        THEN Outcome(S.state, S.tables, S.inbox_log, q, pids, item_id,
                     branch, 200, body, <<>>, <<>>, <<text>>, FALSE)
        ELSE AfterRun(S, pids, text, branch, body,
                      RunItems(w0, q, outcomes, <<>>, S.config.confidence_threshold, S.now).w)

\* a fix branch that enqueues the text of the reply in the place of the
\* parent's
FixBranchOwnText(d, S, fix_category, outcomes) ==
    IF d.parent = <<>>
    THEN Outcome(S.state, S.tables, S.inbox_log, S.queue, S.processed_ids, S.uuids,
                 "fix", 200, "fix missing parent", <<>>, <<>>, <<>>, FALSE)
    ELSE IF Strip(d.parent[1]) = <<>>
    THEN Outcome(S.state, S.tables, S.inbox_log, S.queue, S.processed_ids, S.uuids,
                 "fix", 200, "fix missing original text", <<>>, <<>>, <<>>, FALSE)
    ELSE EnqueueAndRun(S, S.processed_ids,
                       CategoryText(fix_category) \o <<58, 32>> \o Strip(d.text),  \* ": "
                       outcomes, "fix", "fixed")

\* a fix branch that answers a sender who has a list as it answers a reply
\* without parent
FixBranchUnlisted(d, S, fix_category, outcomes) ==
    IF d.parent = <<>> \/ HasSession(prune_state(S.state, S.now), d.roomId, d.personId)
    THEN Outcome(S.state, S.tables, S.inbox_log, S.queue, S.processed_ids, S.uuids,
                 "fix", 200, "fix missing parent", <<>>, <<>>, <<>>, FALSE)
    ELSE IF Strip(d.parent[1]) = <<>>
    THEN Outcome(S.state, S.tables, S.inbox_log, S.queue, S.processed_ids, S.uuids,
                 "fix", 200, "fix missing original text", <<>>, <<>>, <<>>, FALSE)
    ELSE EnqueueAndRun(S, S.processed_ids,
                       CategoryText(fix_category) \o <<58, 32>> \o Strip(d.parent[1]),  \* ": "
                       outcomes, "fix", "fixed")

\* lines 569-582
FixBranch(d, S, fix_category, outcomes) ==
    LET original_text == Strip(d.parent[1])
    IN  IF d.parent = <<>>
        THEN Outcome(S.state, S.tables, S.inbox_log, S.queue, S.processed_ids, S.uuids,
                     "fix", 200, "fix missing parent", <<>>, <<>>, <<>>, FALSE)
        ELSE IF original_text = <<>>
        THEN Outcome(S.state, S.tables, S.inbox_log, S.queue, S.processed_ids, S.uuids,
                     "fix", 200, "fix missing original text", <<>>, <<>>, <<>>, FALSE)
        ELSE EnqueueAndRun(S, S.processed_ids,
                           CategoryText(fix_category) \o <<58, 32>> \o original_text,  \* ": "
                           outcomes, "fix", "fixed")

\* a default branch that answers a delivery whose id is recorded without
\* enqueueing its text
DefaultBranchOnce(d, S, text, outcomes) ==
    IF d.id \in S.processed_ids
    THEN Outcome(S.state, S.tables, S.inbox_log, S.queue, S.processed_ids, S.uuids,
                 "default", 200, "queued", <<>>, <<>>, <<>>, FALSE)
    ELSE EnqueueAndRun(S, S.processed_ids \cup {d.id}, text, outcomes, "default", "queued")

\* lines 584-597: the id is added to the processed ids, the text is enqueued
\* and the pipeline run, whether the id was there or not
DefaultBranch(d, S, text, outcomes) ==
    EnqueueAndRun(S, S.processed_ids \cup {d.id}, text, outcomes, "default", "queued")

\* an invocation that leaves everything as it is (the early returns)
Ignored(S, body) ==
    Outcome(S.state, S.tables, S.inbox_log, S.queue, S.processed_ids, S.uuids,
            "ignored", 200, body, <<>>, <<>>, <<>>, FALSE)

\* the session data and pending_update read at lines 460-464, after the prune
PersonState(st, d) ==
    IF HasSession(st, d.roomId, d.personId) THEN <<st[d.roomId][d.personId]>> ELSE <<>>

Pending(st, d) ==
    IF PersonState(st, d) = <<>> THEN <<>> ELSE PersonState(st, d)[1].pending_update

\* an order of the tests with the command test before the pending_update ones
BranchCommandFirst(d, text, pending, parsed) ==
    IF is_bot(d) THEN "ignored"
    ELSE IF d.roomId = "" THEN "ignored"
    ELSE IF text = <<>> THEN "ignored"
    ELSE IF parsed.is_system_message THEN "ignored"
    ELSE IF parsed.is_cancel THEN "cancel"
    ELSE IF parsed.command # None THEN "command"
    ELSE IF pending # <<>> /\ pending[1].awaiting_value /\ pending[1].field_key # ""
    THEN "awaiting_value"
    ELSE IF pending # <<>> THEN "field_selection"
    ELSE IF parsed.update_request # NoNumber THEN "update_request"
    ELSE IF parsed.fix_category # None THEN "fix"
    ELSE "default"

\* the order of the tests of handler (lines 431-584): text is the stripped
\* text, pending the sender's pending_update after the prune, parsed what the
\* parsers make of the text
Branch(d, text, pending, parsed) ==
    IF is_bot(d) THEN "ignored"
    ELSE IF d.roomId = "" THEN "ignored"
    ELSE IF text = <<>> THEN "ignored"
    ELSE IF parsed.is_system_message THEN "ignored"
    ELSE IF parsed.is_cancel THEN "cancel"
    ELSE IF pending # <<>> /\ pending[1].awaiting_value /\ pending[1].field_key # ""
    THEN "awaiting_value"
    ELSE IF pending # <<>> THEN "field_selection"
    ELSE IF parsed.update_request # NoNumber THEN "update_request"
    ELSE IF parsed.command # None THEN "command"
    ELSE IF parsed.fix_category # None THEN "fix"
    ELSE "default"

\* the branch of handler that takes the delivery
Dispatch(d, S) ==
    Branch(d, Strip(d.text), Pending(prune_state(S.state, S.now), d), Parsed(Strip(d.text)))

\* the body of handler from line 443 on: text is the stripped text, st the
\* state after the prune, branch the branch taken, parsed what the parsers
\* make of the text
Handle(d, S, env, text, st, branch, parsed) ==
    LET has          == HasSession(st, d.roomId, d.personId)
        person_state == PersonState(st, d)[1]
        pending      == Pending(st, d)[1]
    IN  CASE branch = "ignored" ->
                Ignored(S, IF is_bot(d) THEN "ignored bot"
                           ELSE IF d.roomId = "" THEN "missing room id"
                           ELSE IF text = <<>> THEN "empty message"
                           ELSE "ignored system message")
          [] branch = "cancel" -> CancelBranch(d, S)
          [] branch = "awaiting_value" ->
                ApplyUpdate(d, S, st, person_state, pending, pending.field_key, text,
                            env.update_fails, "awaiting_value")
          [] branch = "field_selection" ->
                FieldSelectionBranch(d, S, st, person_state, pending,
                                     parsed.field_selection[1], parsed.field_selection[2],
                                     env.update_fails)
          [] branch = "update_request" ->
                UpdateRequestBranch(d, S, st, has, person_state, parsed.update_request)
          [] branch = "command" -> CommandBranch(d, S, parsed.command)
          [] branch = "fix" -> FixBranch(d, S, parsed.fix_category, env.outcomes)
          [] OTHER -> DefaultBranch(d, S, text, env.outcomes)

\* handler on a messages/created delivery d, from the stored state S; env gives
\* what the collaborators do: update_fails (Storage.update_record raises) and
\* outcomes (the AI's answers and the failures of the pipeline run)
handler(d, S, env) ==
    Handle(d, S, env, Strip(d.text), prune_state(S.state, S.now), Dispatch(d, S),
           Parsed(Strip(d.text)))

\* handler on a delivery whose stripped text is text, which the parsers make
\* parsed of
Handling(d, S, env, text, parsed) ==
    Handle(d, S, env, text, prune_state(S.state, S.now),
           Branch(d, text, Pending(prune_state(S.state, S.now), d), parsed), parsed)

-----------------------------------------------------------------------------
(* lambda_handler.py: the webhook event, handler lines 384-427             *)

\* os.environ WEBEX_BOT_TOKEN of the deployment
WEBEX_BOT_TOKEN == "token"

\* os.environ WEBEX_DIGEST_ROOM_ID of the deployment
WEBEX_DIGEST_ROOM_ID == "r1"

\* the JSON document of a webhook delivery
Payload(resource, event, id) ==
    [resource |-> resource, event |-> event, data |-> [id |-> id]]

\* Bytes are represented by what they spell: the UTF-8 text of a JSON document
\* is <<"json", document>>, the base64 text of the bytes b is <<"base64", b>>.
JsonText(document) == <<"json", document>>

b64encode(bytes) == <<"base64", bytes>>

\* base64.b64decode of a base64 text
b64decode(body) == body[2]

\* json.loads of the text of a JSON document
json_loads(bytes) == bytes[2]

\* hmac.new(secret, body, sha1).hexdigest(): a digest is represented by the
\* key and the bytes it was computed from, so digests of different inputs
\* differ; the -1 before them tells it from a text
hexdigest(secret, body) == <<-1, secret, body>>

\* a verification that accepts every signature
verify_signature_any(secret, body, signature) == "True"

\* a header value is the digest a signer computed, or a text
IsDigest(signature) == signature # <<>> /\ signature[1] = -1

\* _verify_signature: "True" or "False" as hmac.compare_digest returns, or
\* "TypeError", which compare_digest raises for a str that has a character
\* outside ASCII
verify_signature(secret, body, signature) ==
    IF IsDigest(signature)
    THEN (IF hexdigest(secret, body) = signature THEN "True" ELSE "False")
    ELSE IF \E i \in 1..Len(signature) : signature[i] > 127 THEN "TypeError"
    ELSE "False"

\* _get_header: the value of the first header of that name, whatever the case
\* of its letters; <<>> for no such header
RECURSIVE get_header(_, _)
get_header(headers, name) ==
    IF headers = <<>> THEN <<>>
    ELSE IF Lower(headers[1][1]) = Lower(name) THEN headers[1][2]
    ELSE get_header(Tail(headers), name)

\* "X-Spark-Signature"
SignatureHeader == <<88, 45, 83, 112, 97, 114, 107, 45, 83, 105, 103, 110, 97, 116, 117, 114, 101>>

\* an API-gateway event: message is what _webex_get_message returns for the
\* id of the payload
Event(message, body, encoded, headers) ==
    [digest |-> "", httpMethod |-> "POST", body |-> body, isBase64Encoded |-> encoded,
     headers |-> headers, message |-> message]

\* an early return of handler that leaves everything as it is
Rejected(S, branch, status, body) ==
    Outcome(S.state, S.tables, S.inbox_log, S.queue, S.processed_ids, S.uuids,
            branch, status, body, <<>>, <<>>, <<>>, FALSE)

\* _run_digest, called at lines 390-394: the extractive digest of lines
\* 229-244, or build_digest with the AI's summary
run_digest(S, env, days, title, body) ==
    Outcome(S.state, S.tables, S.inbox_log, S.queue, S.processed_ids, S.uuids,
            "digest", 200, body,
            << IF env.extractive
               THEN DigestMessage(title, digest_items(S.tables, days, S.now))
               ELSE build_digest(title, env.summary) >>,
            <<>>, <<>>, FALSE)

\* the return of handler lines 385-427 that takes the event, or "message" when
\* the event gets as far as the fetch of the message at line 428; body_bytes
\* is the decoded body, signature the header's value
Gate(e, secret, body_bytes, signature) ==
    IF e.digest \in {"daily", "weekly"}
    THEN (IF WEBEX_DIGEST_ROOM_ID = "" THEN "missing_room" ELSE "digest")
    ELSE IF e.httpMethod = "GET" THEN "get"
    ELSE IF /\ secret # "" /\ signature # <<>>
            /\ verify_signature(secret, body_bytes, signature) = "TypeError"
    THEN "signature_error"
    ELSE IF /\ secret # ""
            /\ \/ signature = <<>>
               \/ verify_signature(secret, body_bytes, signature) # "True"
    THEN "unauthorized"
    ELSE IF \/ json_loads(body_bytes).resource # "messages"
            \/ json_loads(body_bytes).event # "created"
    THEN "not_message"
    ELSE IF WEBEX_BOT_TOKEN = "" THEN "missing_token"
    ELSE IF json_loads(body_bytes).data.id = "" THEN "missing_id"
    ELSE "message"

\* lines 398-407: the body is decoded, then the signature header is read
Ingress(e, S) ==
    Gate(e, S.config.webhook_secret,
         IF e.isBase64Encoded THEN b64decode(e.body) ELSE e.body,
         get_header(e.headers, SignatureHeader))

\* the response of each early return
Webhook(e, S, env, gate) ==
    CASE gate = "digest"        ->
                run_digest(S, env, IF e.digest = "weekly" THEN 7 ELSE 1,
                           IF e.digest = "weekly" THEN TitleWeeklyReview ELSE TitleDailyDigest,
                           IF e.digest = "weekly" THEN "weekly digest sent"
                           ELSE "daily digest sent")
      [] gate = "missing_room"  -> Rejected(S, gate, 500, "missing WEBEX_DIGEST_ROOM_ID")
      [] gate = "get"           -> Rejected(S, gate, 200, "ok")
      [] gate = "unauthorized"  -> Rejected(S, gate, 401, "invalid signature")
      [] gate = "signature_error" ->
                Outcome(S.state, S.tables, S.inbox_log, S.queue, S.processed_ids, S.uuids,
                        gate, 500, "exception", <<>>, <<>>, <<>>, TRUE)
      [] gate = "not_message"   -> Rejected(S, gate, 200, "ignored")
      [] gate = "missing_token" -> Rejected(S, gate, 500, "missing WEBEX_BOT_TOKEN")
      [] gate = "missing_id"    -> Rejected(S, gate, 200, "missing message id")
      [] OTHER                  -> handler(e.message, S, env)

\* handler on an event, lines 384-597
lambda_handler(e, S, env) == Webhook(e, S, env, Ingress(e, S))

\* the branches of handler that return before the message is fetched
IngressBranches ==
    {"digest", "missing_room", "get", "unauthorized", "signature_error", "not_message",
     "missing_token", "missing_id"}

\* the header a sender that holds the key puts on body
Signed(body, secret) == << <<SignatureHeader, hexdigest(secret, body)>> >>

\* the delivery the chat platform makes for the message d
Notification(d) ==
    Event(d, JsonText(Payload("messages", "created", d.id)), FALSE,
          Signed(JsonText(Payload("messages", "created", d.id)), WEBEX_WEBHOOK_SECRET))

\* deliveries for d whose signature is missing, empty, a text that is no
\* digest (`ab`, `é`), made with another key, made for another body, or made
\* for the base64 text instead of the bytes
BadlySigned(d, body) ==
    { Event(d, body, FALSE, <<>>),
      Event(d, body, FALSE, << <<SignatureHeader, <<>>>> >>),
      Event(d, body, FALSE, << <<SignatureHeader, <<97, 98>>>> >>),  \* "ab"
      Event(d, body, FALSE, << <<SignatureHeader, <<233>>>> >>),  \* "é"
      Event(d, body, FALSE, Signed(body, "k2")),
      Event(d, body, FALSE,
            Signed(JsonText(Payload("messages", "created", "m2")), WEBEX_WEBHOOK_SECRET)),
      Event(d, b64encode(body), TRUE, Signed(b64encode(body), WEBEX_WEBHOOK_SECRET)) }

\* deliveries for d with a good signature: under a lower-case header name,
\* and with a base64 body
WellSigned(d, body) ==
    { Event(d, body, FALSE,
            << <<Lower(SignatureHeader), hexdigest(WEBEX_WEBHOOK_SECRET, body)>> >>),
      Event(d, b64encode(body), TRUE, Signed(body, WEBEX_WEBHOOK_SECRET)) }

\* signed deliveries that are no messages/created event or carry no id, and a GET
NoMessage(d) ==
    { Event(d, JsonText(Payload(x[1], x[2], x[3])), FALSE,
            Signed(JsonText(Payload(x[1], x[2], x[3])), WEBEX_WEBHOOK_SECRET)) :
        x \in { <<"rooms", "created", "m1">>, <<"messages", "deleted", "m1">>,
                <<"messages", "created", "">> } }
    \cup { [Notification(d) EXCEPT !.httpMethod = "GET"] }

Events ==
    { Notification(d) : d \in Deliveries }
    \cup BadlySigned(Delivery("m1", <<"r1", "p1">>, TxtFree, <<>>, "person"),
                     JsonText(Payload("messages", "created", "m1")))
    \cup WellSigned(Delivery("m1", <<"r1", "p1">>, TxtToday, <<>>, "person"),
                    JsonText(Payload("messages", "created", "m1")))
    \cup NoMessage(Delivery("m1", <<"r1", "p1">>, TxtFree, <<>>, "person"))
    \cup { [Notification(Delivery("m1", <<"r1", "p1">>, <<>>, <<>>, "person"))
               EXCEPT !.digest = x] : x \in {"daily", "weekly"} }

-----------------------------------------------------------------------------
(* the specifications                                                      *)

\* the stored state an invocation starts from
Stored ==
    [now |-> now, state |-> state, tables |-> tables, inbox_log |-> inbox_log,
     queue |-> queue, processed_ids |-> processed_ids, uuids |-> uuids, config |-> config]

\* the handler invocations that may be running at the same time
Invocations == {1, 2}

\* the files of the deployment: STATE_PATH, PROCESSED_IDS_PATH, the queue of
\* QueueCapture and the tables of JsonStorage
Files == {"state", "processed_ids", "queue", "inbox_log"} \cup VALID_CATEGORIES

\* what disk tells of a file: whether json.load takes its text, and the
\* fewest and the most characters the text has
Holds(parses, least, most) == [parses |-> parses, least |-> least, most |-> most]

\* the file holds the JSON text of its value, or is not there, its value
\* being the empty one; its extent is that of the value
Whole == Holds(TRUE, -1, -1)

\* what an invocation has still to write: the sessions, the rows of a table
Unwritten == [state |-> EmptyMap, category |-> "", rows |-> <<>>]

\* an invocation that is not running
Idle ==
    [pc |-> "idle", id |-> "", sender |-> <<"", "">>, text |-> <<>>, st |-> EmptyMap,
     file |-> EmptyMap, branch |-> "", ids |-> {}, item_id |-> 0, items |-> <<>>,
     calls |-> <<>>, enqueued |-> <<>>, fetched |-> <<>>, log |-> <<>>, saved |-> <<>>,
     tbls |-> EmptyTables, at |-> 0, out |-> Unwritten, logged |-> <<>>,
     recorded |-> FALSE, raised |-> FALSE]

InitCommon ==
    /\ now = EpochStart
    /\ inbox_log = <<>>
    /\ queue = <<>>
    /\ processed_ids = {}
    /\ batch = <<>>
    /\ stored = <<>>
    /\ last = [op |-> "init"]
    /\ inputs = 0
    /\ procs = [i \in Invocations |-> Idle]
    /\ disk = [f \in Files |-> Whole]

\* the stored state of a fresh deployment whose store holds SeedTables
SeedStored(st) ==
    [now |-> EpochStart, state |-> st, tables |-> SeedTables, inbox_log |-> <<>>,
     queue |-> <<>>, processed_ids |-> {}, uuids |-> RowCount(SeedTables),
     config |-> Config(60, TRUE)]

NoEnv == [update_fails |-> FALSE, outcomes |-> <<>>]

\* the messages of the first sender's dialogue: `this week?`, `update 1`, `1`
DialogueTexts == <<TxtWeek, TxtUpdate1, TxtNum1>>

\* the session store the first k messages of the dialogue leave behind
RECURSIVE DialogueState(_)
DialogueState(k) ==
    IF k = 0 THEN EmptyMap
    ELSE handler(Delivery("m0", <<"r1", "p1">>, DialogueTexts[k], <<>>, "person"),
                 SeedStored(DialogueState(k - 1)), NoEnv).state

\* a deployment with an empty store, with or without a webhook secret, or one
\* whose store holds SeedTables and whose first sender may be anywhere in the
\* update dialogue
Init ==
    /\ InitCommon
    /\ tables \in {EmptyTables, SeedTables}
    /\ state \in IF tables = SeedTables
                 THEN {DialogueState(k) : k \in 0..Len(DialogueTexts)}
                 ELSE {EmptyMap}
    /\ uuids = RowCount(tables)
    /\ config \in {Config(60, TRUE), Config(60, FALSE)}
                   \cup IF tables = EmptyTables THEN {Unsecured(Config(60, TRUE))} ELSE {}

\* what the collaborators may do in an invocation that takes the branch
EnvsOf(branch) ==
    { [update_fails |-> f, outcomes |-> o] :
        f \in IF branch \in {"awaiting_value", "field_selection"} THEN BOOLEAN ELSE {FALSE},
        o \in IF branch \in {"fix", "default"} /\ config.run_pipeline
              THEN [1..(Len(queue) + 1) -> HandlerOutcomes] ELSE {<<>>} }

\* what the collaborators may do during the handling of d
Envs(d) == EnvsOf(Dispatch(d, Stored))

\* what the collaborators may do during the handling of the event e
EventEnvs(e, gate) ==
    IF gate = "message" THEN Envs(e.message)
    ELSE IF gate = "digest"
    THEN { [update_fails |-> FALSE, outcomes |-> <<>>, extractive |-> x[1], summary |-> x[2]] :
             x \in {<<TRUE, <<>>>>, <<FALSE, <<>>>>, <<FALSE, ValOk>>} }
    ELSE {NoEnv}

\* what the invocation on the event e for the message d leaves behind, r being
\* handler's outcome
Leave(e, d, r) ==
    /\ state' = r.state
    /\ tables' = r.tables
    /\ inbox_log' = r.inbox_log
    /\ queue' = r.queue
    /\ processed_ids' = r.processed_ids
    /\ uuids' = r.uuids
    /\ last' = [op |-> IF r.branch = "digest" THEN "digest"
                       ELSE IF r.branch \in IngressBranches THEN "event" ELSE "message",
                event |-> [httpMethod |-> e.httpMethod, body |-> e.body,
                           isBase64Encoded |-> e.isBase64Encoded, headers |-> e.headers],
                fetched |-> r.branch \notin IngressBranches,
                id |-> d.id, author |-> [personType |-> d.personType,
                                         personEmail |-> d.personEmail],
                room |-> d.roomId, person |-> d.personId,
                text |-> Strip(d.text), parent |-> d.parent,
                before |-> PersonState(state, d),
                branch |-> r.branch, status |-> r.status,
                body |-> r.body, posts |-> r.posts, calls |-> r.calls,
                enqueued |-> r.enqueued, raised |-> r.raised]

\* one webhook delivery, handled from beginning to end
Deliver ==
    /\ inputs < MaxMsgs
    /\ batch = <<>>
    /\ \E e \in Events : \E env \in EventEnvs(e, Ingress(e, Stored)) :
          Leave(e, e.message, lambda_handler(e, Stored, env))
    /\ inputs' = inputs + 1
    /\ UNCHANGED <<now, batch, stored, config, procs, disk>>

\* time passes
Tick ==
    /\ now < EpochStart + MaxTicks * ClockStep
    /\ now' = now + ClockStep
    /\ last' = [op |-> "tick"]
    /\ UNCHANGED <<state, tables, inbox_log, queue, processed_ids, uuids, batch, stored,
                   config, inputs, procs, disk>>

\* cli.py cmd_daily and cmd_weekly: build_digest posts the title and the
\* AI's summary
CliDigest ==
    /\ inputs < MaxMsgs
    /\ batch = <<>>
    /\ \E weekly \in BOOLEAN :
          last' = [op |-> "cli_digest", weekly |-> weekly,
                   posts |-> << build_digest(IF weekly THEN CliWeeklyReview
                                             ELSE CliDailyDigest, ValOk) >>]
    /\ inputs' = inputs + 1
    /\ UNCHANGED <<now, state, tables, inbox_log, queue, processed_ids, uuids, config,
                   batch, stored, procs, disk>>

Next == Deliver \/ Tick \/ CliDigest

Spec == Init /\ [][Next]_vars

-----------------------------------------------------------------------------
(* the pipeline on its own: cli.py capture and run, one item at a time     *)

InitGate ==
    /\ InitCommon
    /\ state = EmptyMap
    /\ tables = EmptyTables
    /\ uuids = 0
    /\ config \in {Config(40, TRUE), Config(60, TRUE)}

\* cli.py cmd_capture
Capture ==
    /\ inputs < MaxItems
    /\ batch = <<>>
    /\ \E text \in {TxtFree} :
          /\ queue' = enqueue(queue, text, "cli", uuids + 1, now)
          /\ last' = [op |-> "capture", text |-> text]
    /\ uuids' = uuids + 1
    /\ inputs' = inputs + 1
    /\ UNCHANGED <<now, state, tables, inbox_log, processed_ids, config, batch, stored, procs, disk>>

\* Pipeline.run, lines 29-30: QueueCapture.fetch empties the queue
RunFetch ==
    /\ batch = <<>>
    /\ queue # <<>>
    /\ batch' = <<queue>>
    /\ queue' = <<>>
    /\ stored' = <<>>
    /\ last' = [op |-> "fetch"]
    /\ UNCHANGED <<now, state, tables, inbox_log, processed_ids, uuids, config, inputs, procs, disk>>

\* a loop that catches the exception of a turn and goes on with the next item
TurnCaught(item, o, h) ==
    /\ tables' = h.w.tables
    /\ inbox_log' = h.w.inbox_log
    /\ uuids' = h.w.uuids
    /\ batch' = <<Tail(batch[1])>>
    /\ stored' = stored \o h.ret
    /\ last' = [op |-> "handle", item |-> item, result |-> o.result,
                fault |-> o.fault, calls |-> h.w.calls, posts |-> h.w.posts,
                ret |-> h.ret, raised |-> h.w.raised]

\* what one turn of the loop leaves behind, h being what became of the item
Turn(item, o, h) ==
    /\ tables' = h.w.tables
    /\ inbox_log' = h.w.inbox_log
    /\ uuids' = h.w.uuids
    /\ batch' = IF h.w.raised THEN <<>> ELSE <<Tail(batch[1])>>
    /\ stored' = IF h.w.raised THEN <<>> ELSE stored \o h.ret
    /\ last' = [op |-> "handle", item |-> item, result |-> o.result,
                fault |-> o.fault, calls |-> h.w.calls, posts |-> h.w.posts,
                ret |-> h.ret, raised |-> h.w.raised]

\* Pipeline.run, lines 31-35: one turn of the loop; an exception ends the run
RunStep ==
    /\ batch # <<>>
    /\ batch[1] # <<>>
    /\ \E o \in GateOutcomes :
          LET w0 == [tables |-> tables, inbox_log |-> inbox_log, uuids |-> uuids,
                     calls |-> <<>>, posts |-> <<>>, raised |-> FALSE]
          IN  Turn(Head(batch[1]), o,
                   IF o.fault = "ai"
                   THEN [w |-> [w0 EXCEPT !.raised = TRUE], ret |-> <<>>]
                   ELSE handle_classification(w0, Head(batch[1]), o.result, o.fault,
                                              config.confidence_threshold, now))
    /\ UNCHANGED <<now, state, queue, processed_ids, config, inputs, procs, disk>>

\* Pipeline.run, line 36
RunReturn ==
    /\ batch = << <<>> >>
    /\ batch' = <<>>
    /\ stored' = <<>>
    /\ last' = [op |-> "run", ret |-> stored]
    /\ UNCHANGED <<now, state, tables, inbox_log, queue, processed_ids, uuids, config, inputs, procs, disk>>

NextGate == Capture \/ RunFetch \/ RunStep \/ RunReturn

SpecGate == InitGate /\ [][NextGate]_vars

-----------------------------------------------------------------------------
(* json.dump: how many characters each file's contents take.  A text whose   *)
(* length the model's data does not fix (a timestamp) is counted at its      *)
(* shortest for w = 1 and at its longest for w = 2.                          *)

\* json.dumps of one character (ensure_ascii is left on): a backslash and
\* a letter for the quote, the backslash, \n, \r, \t, \f and \b; \uXXXX
\* for the other characters outside U+0020..U+007E, twice for those above
\* U+FFFF; every other character as it is
JsonChar(c) ==
    IF c \in {34, 92, 10, 13, 9, 12, 8} THEN 2
    ELSE IF c > 65535 THEN 12
    ELSE IF c < 32 \/ c > 126 THEN 6
    ELSE 1

\* json.dumps of a str
RECURSIVE JsonStr(_)
JsonStr(text) == IF text = <<>> THEN 2 ELSE JsonChar(text[1]) + JsonStr(Tail(text))

\* the characters of the strings the model writes as words
Spell(s) ==
    CASE s = "people" -> <<112, 101, 111, 112, 108, 101>>  \* "people"
      [] s = "projects" -> <<112, 114, 111, 106, 101, 99, 116, 115>>  \* "projects"
      [] s = "ideas" -> <<105, 100, 101, 97, 115>>  \* "ideas"
      [] s = "admin" -> <<97, 100, 109, 105, 110>>  \* "admin"
      [] s = "name" -> <<110, 97, 109, 101>>  \* "name"
      [] s = "title" -> <<116, 105, 116, 108, 101>>  \* "title"
      [] s = "status" -> <<115, 116, 97, 116, 117, 115>>  \* "status"
      [] s = "next_action" -> <<110, 101, 120, 116, 95, 97, 99, 116, 105, 111, 110>>  \* "next_action"
      [] s = "notes" -> <<110, 111, 116, 101, 115>>  \* "notes"
      [] s = "due_date" -> <<100, 117, 101, 95, 100, 97, 116, 101>>  \* "due_date"
      [] s = "last_touched" -> <<108, 97, 115, 116, 95, 116, 111, 117, 99, 104, 101, 100>>  \* "last_touched"
      [] s = "priority" -> <<112, 114, 105, 111, 114, 105, 116, 121>>  \* "priority"
      [] s = "Priority" -> <<80, 114, 105, 111, 114, 105, 116, 121>>  \* "Priority"
      [] s = "Status" -> <<83, 116, 97, 116, 117, 115>>  \* "Status"
      [] s = "Notes" -> <<78, 111, 116, 101, 115>>  \* "Notes"
      [] s = "Next Action" -> <<78, 101, 120, 116, 32, 65, 99, 116, 105, 111, 110>>  \* "Next Action"
      [] s = "context" -> <<99, 111, 110, 116, 101, 120, 116>>  \* "context"
      [] s = "Context" -> <<67, 111, 110, 116, 101, 120, 116>>  \* "Context"
      [] s = "one_liner" -> <<111, 110, 101, 95, 108, 105, 110, 101, 114>>  \* "one_liner"
      [] s = "One Liner" -> <<79, 110, 101, 32, 76, 105, 110, 101, 114>>  \* "One Liner"
      [] s = "follow_ups" -> <<102, 111, 108, 108, 111, 119, 95, 117, 112, 115>>  \* "follow_ups"
      [] s = "webex" -> <<119, 101, 98, 101, 120>>  \* "webex"
      [] s = "cli" -> <<99, 108, 105>>  \* "cli"
      [] s = "queue" -> <<113, 117, 101, 117, 101>>  \* "queue"
      [] s = "needs_review" -> <<110, 101, 101, 100, 115, 95, 114, 101, 118, 105, 101, 119>>  \* "needs_review"
      [] s = "filed" -> <<102, 105, 108, 101, 100>>  \* "filed"
      [] s = "m0" -> <<109, 48>>  \* "m0"
      [] s = "m1" -> <<109, 49>>  \* "m1"
      [] s = "m2" -> <<109, 50>>  \* "m2"
      [] s = "r1" -> <<114, 49>>  \* "r1"
      [] s = "r2" -> <<114, 50>>  \* "r2"
      [] s = "p1" -> <<112, 49>>  \* "p1"
      [] s = "p2" -> <<112, 50>>  \* "p2"
      [] s = "bot" -> <<98, 111, 116>>  \* "bot"
      [] s = "" -> <<>>

\* the strings the model writes as words
Words ==
    { "people", "projects", "ideas", "admin", "name", "title", "status",
      "next_action", "notes", "due_date", "last_touched", "priority", "Priority", "Status",
      "Notes", "Next Action", "context", "Context", "one_liner", "One Liner", "follow_ups",
      "webex", "cli", "queue", "needs_review", "filed", "m0", "m1",
      "m2", "r1", "r2", "p1", "p2", "bot", "" }

\* json.dumps of such a string; the sizes are worked out once
WordSizes == [s \in Words |-> JsonStr(Spell(s))]

JsonWord(s) == WordSizes[s]

\* the texts of the seeded records and of the concurrent deliveries
SeedRows == UNION { {SeedTables[c][k] : k \in 1..Len(SeedTables[c])} : c \in VALID_CATEGORIES }

SeedTexts ==
    {<<>>, ValOk, TxtFree}
    \cup UNION { {r.title} \cup {r.fields[j][2] : j \in 1..Len(r.fields)} : r \in SeedRows }

\* json.dumps of a text; the sizes of the texts above are worked out once
TextSizes == [t \in SeedTexts |-> JsonStr(t)]

JsonSized(text) == IF text \in DOMAIN TextSizes THEN TextSizes[text] ELSE JsonStr(text)

\* str(uuid4()) between quotes
JsonUuid == 38

\* datetime.isoformat() of utcnow(), between quotes: without the microseconds
\* when they are 0
JsonStamp(w) == IF w = 1 THEN 21 ELSE 28

\* a float of datetime.timestamp(): from 1790000000.0 to 1790000000.123456
JsonTime(w) == IF w = 1 THEN 12 ELSE 17

\* the digits of a natural number
RECURSIVE DigitCount(_)
DigitCount(n) == IF n < 10 THEN 1 ELSE 1 + DigitCount(n \div 10)

\* repr of the float that is c hundredths
JsonFloat(c) ==
    IF c < 0 THEN 1 + DigitCount((0 - c) \div 100) + (IF c % 10 = 0 THEN 2 ELSE 3)
    ELSE DigitCount(c \div 100) + (IF c % 10 = 0 THEN 2 ELSE 3)

RECURSIVE SumOf(_)
SumOf(sizes) == IF sizes = <<>> THEN 0 ELSE sizes[1] + SumOf(Tail(sizes))

\* the members of a set, in some order
RECURSIVE Members(_)
Members(S) ==
    IF S = {} THEN <<>>
    ELSE LET x == CHOOSE y \in S : TRUE IN <<x>> \o Members(S \ {x})

\* a list or a dict written without indent: `[a, b]`, `{"k": v, "l": w}`
Flat(sizes) ==
    IF sizes = <<>> THEN 2 ELSE 2 + SumOf(sizes) + 2 * (Len(sizes) - 1)

\* the same for the members of a set, F giving the size of each
FlatOver(S, F(_)) == Flat([k \in 1..Len(Members(S)) |-> F(Members(S)[k])])

\* a list or a dict written with indent=2 at nesting level l: every member on
\* a line of its own
Indented(l, sizes) ==
    IF sizes = <<>> THEN 2
    ELSE 1 + SumOf(sizes) + Len(sizes) * (1 + 2 * (l + 1)) + (Len(sizes) - 1) + 1 + 2 * l + 1

\* the dict of the fields of a record
FieldSizes(fields) ==
    [k \in 1..Len(fields) |-> JsonWord(fields[k][1]) + 2 + JsonSized(fields[k][2])]

\* _save_processed_ids: json.dump(sorted(ids))
IdsSize(ids) == FlatOver(ids, JsonWord)

\* QueueCapture._write_queue: json.dump(items, indent=2)
QueueSize(items, w) ==
    Indented(0, [k \in 1..Len(items) |->
        Indented(1, << 6 + JsonUuid, 8 + JsonSized(items[k].text),
                       10 + JsonWord(items[k].source), 14 + JsonStamp(w) >>)])

\* JsonStorage._write_table of a category: json.dump(items, indent=2)
TableSize(rows, w) ==
    Indented(0, [k \in 1..Len(rows) |->
        Indented(1, << 6 + JsonUuid, 12 + JsonWord(rows[k].category),
                       9 + JsonSized(rows[k].title),
                       10 + Indented(2, FieldSizes(rows[k].fields)),
                       14 + JsonStamp(w) >>)])

\* JsonStorage._write_table of the inbox log
LogSize(log, w) ==
    Indented(0, [k \in 1..Len(log) |->
        Indented(1, << 13 + JsonUuid, 10 + JsonWord(log[k].source),
                       17 + JsonSized(log[k].captured_text),
                       12 + JsonWord(log[k].category), 9 + JsonSized(log[k].title),
                       14 + JsonFloat(log[k].confidence), 13 + JsonStamp(w),
                       10 + JsonWord(log[k].status) >>
                    \o (IF log[k].record_id = <<>> THEN <<>> ELSE <<13 + JsonUuid>>))])

\* a pending_update, or null
PendingSize(pending) ==
    IF pending = <<>> THEN 4
    ELSE Flat(<< 13 + JsonUuid, 12 + JsonWord(pending[1].category),
                 10 + Flat([k \in 1..Len(pending[1].fields) |->
                              Flat(<< 7 + JsonWord(pending[1].fields[k].key),
                                      8 + JsonWord(pending[1].fields[k].name) >>)]),
                 18 + (IF pending[1].awaiting_value THEN 4 ELSE 5) >>
              \o (IF pending[1].field_key = "" THEN <<>>
                  ELSE << 13 + JsonWord(pending[1].field_key),
                          14 + JsonWord(pending[1].field_name) >>))

\* the session of a person
SessionSize(data, w) ==
    Flat(<< 14 + JsonTime(w),
            13 + Flat([k \in 1..Len(data.last_list) |->
                         Flat(<< 13 + JsonUuid, 12 + JsonWord(data.last_list[k].category),
                                 9 + JsonSized(data.last_list[k].title),
                                 10 + Flat(FieldSizes(data.last_list[k].fields)) >>)]),
            18 + PendingSize(data.pending_update) >>)

\* _save_state: json.dump(state)
StateSize(st, w) ==
    LET RoomSize(r) ==
            LET PersonSize(q) == JsonWord(q) + 2 + SessionSize(st[r][q], w)
            IN  JsonWord(r) + 2 + FlatOver(DOMAIN st[r], PersonSize)
    IN  FlatOver(DOMAIN st, RoomSize)

-----------------------------------------------------------------------------
(* handler invocations that run at the same time.  Nothing in the code      *)
(* serialises two invocations.  A file is read in one step and written in  *)
(* two: open(path, "w") empties it, and json.dump with the close that      *)
(* follows puts the text at its beginning.  Other invocations may take     *)
(* steps in between.  _load_state and _load_processed_ids take a file that *)
(* does not parse as an empty one; _read_queue and _read_table raise.      *)

\* invocations started in a behaviour
MaxInvocations == 2

\* the messages of the concurrent invocations: free text of the first sender
\* under two ids, a list command of the first sender and one of the second
ConcurrentDeliveries ==
    { Delivery(id, <<"r1", "p1">>, TxtFree, <<>>, "person") : id \in {"m1", "m2"} }
    \cup { Delivery("m1", <<"r1", "p1">>, TxtToday, <<>>, "person"),
           Delivery("m2", <<"r1", "p2">>, TxtToday, <<>>, "person") }

\* the stored state the concurrent invocations start from, given the tables:
\* a fresh deployment, or one whose store holds SeedTables and whose first
\* sender has been asked for the new value of a field
ConcurrentOrigin(tbls) ==
    [now |-> EpochStart,
     state |-> IF tbls = EmptyTables THEN EmptyMap ELSE DialogueState(Len(DialogueTexts)),
     tables |-> tbls, inbox_log |-> <<>>, queue |-> <<>>, processed_ids |-> {},
     uuids |-> RowCount(tbls), config |-> Config(60, FALSE)]

\* the files after the invocation with outcome r has run alone from S
Then(S, r) ==
    [S EXCEPT !.state = r.state, !.tables = r.tables, !.inbox_log = r.inbox_log,
              !.queue = r.queue, !.processed_ids = r.processed_ids, !.uuids = r.uuids]

\* a deployment that has handled the free text m1 of the first sender, by
\* itself and without the pipeline, a minute ago: its id is in the
\* processed ids and its item in the queue
Redelivered ==
    [Then(ConcurrentOrigin(EmptyTables),
          handler(Delivery("m1", <<"r1", "p1">>, TxtFree, <<>>, "person"),
                  ConcurrentOrigin(EmptyTables), NoEnv))
        EXCEPT !.now = EpochStart + 1]

ConcurrentOrigins == {ConcurrentOrigin(EmptyTables), ConcurrentOrigin(SeedTables), Redelivered}

InitConcurrent ==
    /\ batch = <<>>
    /\ stored = <<>>
    /\ last = [op |-> "init"]
    /\ inputs = 0
    /\ procs = [i \in Invocations |-> Idle]
    /\ disk = [f \in Files |-> Whole]
    /\ \E origin \in ConcurrentOrigins :
          /\ now = origin.now
          /\ tables = origin.tables
          /\ state = origin.state
          /\ inbox_log = origin.inbox_log
          /\ queue = origin.queue
          /\ processed_ids = origin.processed_ids
          /\ uuids = origin.uuids
          /\ config \in {origin.config, Config(60, TRUE)}

\* the stored state the invocations started from: the clock tells the
\* deployment that has handled m1, and only a store that was empty has
\* empty tables none of which was written
OriginOf ==
    IF now # EpochStart THEN Redelivered
    ELSE IF tables = EmptyTables /\ \A c \in VALID_CATEGORIES : disk[c] = Whole
    THEN ConcurrentOrigin(EmptyTables)
    ELSE ConcurrentOrigin(SeedTables)

\* the fewest and the most characters of the file f: of the text of its
\* value, or of what a write left there.  A file that is not there counts as
\* the two characters of an empty value, which no text is shorter than
Extent(f) ==
    IF disk[f] # Whole THEN <<disk[f].least, disk[f].most>>
    ELSE IF f = "state" THEN <<StateSize(state, 1), StateSize(state, 2)>>
    ELSE IF f = "processed_ids" THEN <<IdsSize(processed_ids), IdsSize(processed_ids)>>
    ELSE IF f = "queue" THEN <<QueueSize(queue, 1), QueueSize(queue, 2)>>
    ELSE IF f = "inbox_log" THEN <<LogSize(inbox_log, 1), LogSize(inbox_log, 2)>>
    ELSE <<TableSize(tables[f], 1), TableSize(tables[f], 2)>>

\* json.dump of a text of lo to hi characters into a handle opened before
\* the file got its present text, of the extent was: the text is written
\* at the beginning.  It is the whole of the file when it is no shorter
\* than what was there; when it is shorter, the end of the older text
\* stays after it, and the file does not parse
Most(a, b) == IF a > b THEN a ELSE b

Over(was, lo, hi) ==
    (IF hi >= was[1] THEN {Holds(TRUE, Most(lo, was[1]), hi)} ELSE {})
    \cup (IF lo < was[2] THEN {Holds(FALSE, Most(lo + 1, was[1]), was[2])} ELSE {})

\* what the file f can be afterwards
Dumps(f, lo, hi) == Over(Extent(f), lo, hi)

\* open(path, "w") on the file f
Opened(f) == disk' = [disk EXCEPT ![f] = Holds(FALSE, 0, 0)]

\* the invocation i becomes proc, after the step op
Goes(i, op, proc) ==
    /\ procs' = [procs EXCEPT ![i] = proc]
    /\ last' = [op |-> op, proc |-> i, id |-> proc.id]

\* the message the invocation is handling
DeliveryOf(proc) == Delivery(proc.id, proc.sender, proc.text, <<>>, "person")

\* the invocation has returned: what it leaves for the comparison of effects
Returned(proc) ==
    [Idle EXCEPT !.id = proc.id, !.sender = proc.sender, !.text = proc.text,
                 !.branch = proc.branch, !.calls = proc.calls,
                 !.enqueued = proc.enqueued, !.item_id = proc.item_id,
                 !.fetched = proc.fetched, !.saved = proc.saved,
                 !.logged = proc.logged, !.recorded = proc.recorded]

\* the invocation has ended with an exception
Raised(proc) == [Returned(proc) EXCEPT !.raised = TRUE]

\* lambda_handler is called with a delivery that passes the tests of lines
\* 385-447
Start(i) ==
    /\ procs[i].pc = "idle"
    /\ inputs < MaxInvocations
    /\ \E d \in ConcurrentDeliveries :
          /\ Dispatch(d, Stored) # "ignored"
          /\ Goes(i, "start", [Idle EXCEPT !.pc = "load_state", !.id = d.id,
                                            !.sender = <<d.roomId, d.personId>>,
                                            !.text = Strip(d.text)])
    /\ inputs' = inputs + 1
    /\ UNCHANGED <<now, state, tables, inbox_log, queue, processed_ids, uuids, config,
                   batch, stored, disk>>

\* where the invocation goes once the tests of lines 449-569 have chosen the
\* branch: free text goes to the processed ids, a list command to the
\* tables; help (lines 553-559) reads no file, and fix: without a parent
\* (lines 571-572), which is what DeliveryOf gives, returns at once
After(branch, command) ==
    IF branch = "default" THEN "load_ids"
    ELSE IF branch = "command" /\ command # "help" THEN "list"
    ELSE "act"

\* lines 450 and 460: _load_state reads the file, which is empty to it when
\* it does not parse; the tests that follow it choose the branch from what
\* was read
LoadState(i) ==
    /\ procs[i].pc = "load_state"
    /\ Goes(i, "load_state",
            [procs[i] EXCEPT
                !.st = state, !.file = state,
                !.branch = Dispatch(DeliveryOf(procs[i]), Stored),
                !.pc = After(Dispatch(DeliveryOf(procs[i]), Stored),
                             Parsed(procs[i].text).command)])
    /\ UNCHANGED <<now, state, tables, inbox_log, queue, processed_ids, uuids, config,
                   batch, stored, inputs, disk>>

\* the list command asks for the records of one day
AsksToday(proc) == Parsed(proc.text).command = "today"

\* JsonStorage.list_records, lines 45-47: the loop over the categories
\* makes one _read_table a category, in the order of CATEGORIES, and other
\* invocations may take steps between two of them.  proc.at tells how many
\* tables the call has read; _read_table (lines 98-103) raises on a file
\* that does not parse
NextTable(proc) == CATEGORIES[proc.at + 1]

\* the tables the call has read once _read_table has read the next one
ReadSoFar(proc) == [proc.tbls EXCEPT ![NextTable(proc)] = tables[NextTable(proc)]]

\* the invocation after the next _read_table of a list_records; it goes to
\* the step to once the last table is read
ReadTable(proc, to) ==
    IF ~disk[NextTable(proc)].parses THEN Raised(proc)
    ELSE IF proc.at + 1 < Len(CATEGORIES)
    THEN [proc EXCEPT !.tbls = ReadSoFar(proc), !.at = @ + 1]
    ELSE [proc EXCEPT !.tbls = ReadSoFar(proc), !.at = 0, !.pc = to]

\* _send_digest_list, lines 335-339: the list_records of the command;
\* _select_daily_records reads the tables again when the day has no record
ListRecords(i) ==
    /\ procs[i].pc = "list"
    /\ Goes(i, "list",
            ReadTable(procs[i],
                      IF AsksToday(procs[i])
                            /\ list_records(ReadSoFar(procs[i]), CATEGORIES, 1, now) = <<>>
                      THEN "list_open" ELSE "reload"))
    /\ UNCHANGED <<now, state, tables, inbox_log, queue, processed_ids, uuids, config,
                   batch, stored, inputs, disk>>

\* _select_daily_records, line 325: the second list_records
ListOpen(i) ==
    /\ procs[i].pc = "list_open"
    /\ Goes(i, "list_open", ReadTable(procs[i], "reload"))
    /\ UNCHANGED <<now, state, tables, inbox_log, queue, processed_ids, uuids, config,
                   batch, stored, inputs, disk>>

\* line 363: _send_digest_list reads the session file again, after the post
Reload(i) ==
    /\ procs[i].pc = "reload"
    /\ Goes(i, "reload", [procs[i] EXCEPT !.file = state, !.pc = "act"])
    /\ UNCHANGED <<now, state, tables, inbox_log, queue, processed_ids, uuids, config,
                   batch, stored, inputs, disk>>

\* the entry of the sender in a session file: <<data>>, <<>> when there is none
SessionIn(st, sender) ==
    IF HasSession(st, sender[1], sender[2]) THEN <<st[sender[1]][sender[2]]>> ELSE <<>>

\* the outcome r comes with a _save_state (lines 456, 371, 478, 499, 512 and
\* 547); had tells that the sender had an entry in the file cancel read
Saved(r, had) ==
    \/ r.branch = "cancel" /\ had
    \/ r.body \in {"updated", "awaiting update value", "update prompt sent",
                   "weekly digest sent", "daily digest sent", "next digest sent"}

\* what handler does in the branch it chose, with the sessions it read at
\* line 460, the session file it read last and, for a list, the tables
\* list_records read; update_record reads its table now
Acted(proc) ==
    Handle(DeliveryOf(proc),
           [Stored EXCEPT !.state = proc.file,
                          !.tables = IF proc.branch = "command" THEN proc.tbls ELSE tables],
           NoEnv, proc.text, prune_state(proc.st, now), proc.branch, Parsed(proc.text))

\* the outcome r makes a call of update_record
Updates(r) == r.calls # <<>> /\ r.calls[1].op = "update_record"

\* the invocation proc after the rest of a branch of the update dialogue, of
\* cancel or of a command, up to its first write; r is what handler does in
\* the branch.  update_record (lines 77-86) reads the table with
\* _read_table, which raises on a table that does not parse, and raises
\* itself when the row is not there; what is to be written is kept: the rows
\* of the table, and the sessions that were read with the session of the
\* sender changed
Continued(proc, r) ==
    IF Updates(r)
    THEN IF ~disk[r.calls[1].category].parses \/ r.raised
         THEN Raised([proc EXCEPT !.calls = r.calls])
         ELSE [proc EXCEPT !.pc = "open_table", !.calls = r.calls,
                           !.out = [state |-> r.state,
                                    category |-> r.calls[1].category,
                                    rows |-> r.tables[r.calls[1].category]]]
    ELSE IF r.raised THEN Raised([proc EXCEPT !.calls = r.calls])
    ELSE IF Saved(r, HasSession(proc.file, proc.sender[1], proc.sender[2]))
    THEN [proc EXCEPT !.pc = "open_state", !.calls = r.calls,
                      !.out = [Unwritten EXCEPT !.state = r.state]]
    ELSE Returned([proc EXCEPT !.calls = r.calls])

Act(i) ==
    /\ procs[i].pc = "act"
    /\ Goes(i, "act", Continued(procs[i], Acted(procs[i])))
    /\ UNCHANGED <<now, state, tables, inbox_log, queue, processed_ids, uuids, config,
                   batch, stored, inputs, disk>>

\* JsonStorage._write_table, line 108: the table is opened for writing
OpenTable(i) ==
    /\ procs[i].pc = "open_table"
    /\ tables' = [tables EXCEPT ![procs[i].out.category] = <<>>]
    /\ Opened(procs[i].out.category)
    /\ Goes(i, "open_table", [procs[i] EXCEPT !.pc = "dump_table"])
    /\ UNCHANGED <<now, state, inbox_log, queue, processed_ids, uuids, config, batch,
                   stored, inputs>>

\* JsonStorage._write_table, line 109: the rows are written
DumpTable(i) ==
    /\ procs[i].pc = "dump_table"
    /\ LET f    == procs[i].out.category
           data == procs[i].out.rows
       IN  \E d \in Dumps(f, TableSize(data, 1), TableSize(data, 2)) :
              /\ disk' = [disk EXCEPT ![f] = d]
              /\ tables' = [tables EXCEPT ![f] = IF d.parses THEN data ELSE <<>>]
    /\ Goes(i, "dump_table", [procs[i] EXCEPT !.pc = "open_state"])
    /\ UNCHANGED <<now, state, inbox_log, queue, processed_ids, uuids, config, batch,
                   stored, inputs>>

\* _save_state, line 85: the session file is opened for writing
OpenState(i) ==
    /\ procs[i].pc = "open_state"
    /\ state' = EmptyMap
    /\ Opened("state")
    /\ Goes(i, "open_state", [procs[i] EXCEPT !.pc = "dump_state"])
    /\ UNCHANGED <<now, tables, inbox_log, queue, processed_ids, uuids, config, batch,
                   stored, inputs>>

\* _save_state, line 86: the sessions are written; the post follows and
\* handler returns
DumpState(i) ==
    /\ procs[i].pc = "dump_state"
    /\ LET data == procs[i].out.state
       IN  \E d \in Dumps("state", StateSize(data, 1), StateSize(data, 2)) :
              /\ disk' = [disk EXCEPT !["state"] = d]
              /\ state' = IF d.parses THEN data ELSE EmptyMap
    /\ Goes(i, "dump_state",
            Returned([procs[i] EXCEPT
                         !.saved = <<SessionIn(procs[i].out.state, procs[i].sender)>>]))
    /\ UNCHANGED <<now, tables, inbox_log, queue, processed_ids, uuids, config, batch,
                   stored, inputs>>

\* lines 584-585: _load_processed_ids reads the file, which is empty to it
\* when it does not parse; nothing is written when the id is in the set
LoadIds(i) ==
    /\ procs[i].pc = "load_ids"
    /\ Goes(i, "load_ids",
            [procs[i] EXCEPT !.ids = processed_ids,
                             !.pc = IF procs[i].id \in processed_ids THEN "read_queue"
                                    ELSE "open_ids"])
    /\ UNCHANGED <<now, state, tables, inbox_log, queue, processed_ids, uuids, config,
                   batch, stored, inputs, disk>>

\* _save_processed_ids, line 70: the file is opened for writing
OpenIds(i) ==
    /\ procs[i].pc = "open_ids"
    /\ processed_ids' = {}
    /\ Opened("processed_ids")
    /\ Goes(i, "open_ids", [procs[i] EXCEPT !.pc = "dump_ids"])
    /\ UNCHANGED <<now, state, tables, inbox_log, queue, uuids, config, batch, stored,
                   inputs>>

\* _save_processed_ids, line 71: the set that was read is written with the
\* id added
DumpIds(i) ==
    /\ procs[i].pc = "dump_ids"
    /\ LET data == procs[i].ids \cup {procs[i].id}
       IN  \E d \in Dumps("processed_ids", IdsSize(data), IdsSize(data)) :
              /\ disk' = [disk EXCEPT !["processed_ids"] = d]
              /\ processed_ids' = IF d.parses THEN data ELSE {}
              /\ Goes(i, "dump_ids", [procs[i] EXCEPT !.pc = "read_queue",
                                                      !.recorded = d.parses])
    /\ UNCHANGED <<now, state, tables, inbox_log, queue, uuids, config, batch, stored,
                   inputs>>

\* QueueCapture.enqueue, lines 18-24: the payload gets its uuid4 and
\* _read_queue reads the file, raising when it does not parse
ReadQueue(i) ==
    /\ procs[i].pc = "read_queue"
    /\ uuids' = uuids + 1
    /\ Goes(i, "read_queue",
            IF ~disk["queue"].parses THEN Raised(procs[i])
            ELSE [procs[i] EXCEPT !.pc = "open_queue", !.items = queue,
                                  !.item_id = uuids + 1])
    /\ UNCHANGED <<now, state, tables, inbox_log, queue, processed_ids, config, batch,
                   stored, inputs, disk>>

\* QueueCapture._write_queue, line 54, called by enqueue
OpenQueue(i) ==
    /\ procs[i].pc = "open_queue"
    /\ queue' = <<>>
    /\ Opened("queue")
    /\ Goes(i, "open_queue", [procs[i] EXCEPT !.pc = "dump_queue"])
    /\ UNCHANGED <<now, state, tables, inbox_log, processed_ids, uuids, config, batch,
                   stored, inputs>>

\* QueueCapture._write_queue, line 55, called by enqueue: the list that was
\* read is written with the payload appended; handler returns when
\* SB_RUN_PIPELINE is not true (lines 579-582 and 590-592)
DumpQueue(i) ==
    /\ procs[i].pc = "dump_queue"
    /\ LET data == enqueue(procs[i].items, procs[i].text, "webex", procs[i].item_id, now)
       IN  \E d \in Dumps("queue", QueueSize(data, 1), QueueSize(data, 2)) :
              /\ disk' = [disk EXCEPT !["queue"] = d]
              /\ queue' = IF d.parses THEN data ELSE <<>>
    /\ Goes(i, "dump_queue",
            IF config.run_pipeline
            THEN [procs[i] EXCEPT !.pc = "fetch_read", !.enqueued = <<procs[i].text>>]
            ELSE Returned([procs[i] EXCEPT !.enqueued = <<procs[i].text>>]))
    /\ UNCHANGED <<now, state, tables, inbox_log, processed_ids, uuids, config, batch,
                   stored, inputs>>

\* QueueCapture.fetch, line 29: _read_queue reads the file
FetchRead(i) ==
    /\ procs[i].pc = "fetch_read"
    /\ Goes(i, "fetch_read",
            IF ~disk["queue"].parses THEN Raised(procs[i])
            ELSE [procs[i] EXCEPT !.pc = "fetch_open", !.items = queue])
    /\ UNCHANGED <<now, state, tables, inbox_log, queue, processed_ids, uuids, config,
                   batch, stored, inputs, disk>>

\* QueueCapture._write_queue, line 54, called by fetch
FetchOpen(i) ==
    /\ procs[i].pc = "fetch_open"
    /\ queue' = <<>>
    /\ Opened("queue")
    /\ Goes(i, "fetch_open", [procs[i] EXCEPT !.pc = "fetch_dump"])
    /\ UNCHANGED <<now, state, tables, inbox_log, processed_ids, uuids, config, batch,
                   stored, inputs>>

\* QueueCapture._write_queue, line 55, called by fetch: the empty list is
\* written, and the items that were read are returned
FetchDump(i) ==
    /\ procs[i].pc = "fetch_dump"
    /\ \E d \in Dumps("queue", QueueSize(<<>>, 1), QueueSize(<<>>, 2)) :
          disk' = [disk EXCEPT !["queue"] = d]
    /\ queue' = <<>>
    /\ Goes(i, "fetch_dump",
            [procs[i] EXCEPT !.pc = "run",
                             !.fetched = [k \in 1..Len(procs[i].items) |->
                                             procs[i].items[k].item_id]])
    /\ UNCHANGED <<now, state, tables, inbox_log, processed_ids, uuids, config, batch,
                   stored, inputs>>

\* what the AI of the concurrent invocations answers for every item: a
\* classification below the threshold
ReviewOutcome == [result |-> Classification("projects", 30, ValOk, <<>>), fault |-> "none"]

\* Pipeline.run line 31 and JsonStorage.log_inbox, line 39: the next item
\* is classified and _read_table reads the inbox log, raising when it does
\* not parse
LogRead(i) ==
    /\ procs[i].pc = "run"
    /\ procs[i].items # <<>>
    /\ Goes(i, "log_read",
            IF ~disk["inbox_log"].parses THEN Raised(procs[i])
            ELSE [procs[i] EXCEPT !.pc = "log_open", !.log = inbox_log])
    /\ UNCHANGED <<now, state, tables, inbox_log, queue, processed_ids, uuids, config,
                   batch, stored, inputs, disk>>

\* _handle_classification on the item, with the inbox log that was read
Logs(proc) ==
    handle_classification([tables |-> tables, inbox_log |-> proc.log, uuids |-> uuids,
                           calls |-> <<>>, posts |-> <<>>, raised |-> FALSE],
                          Head(proc.items), ReviewOutcome.result, ReviewOutcome.fault,
                          config.confidence_threshold, now)

\* JsonStorage._write_table, line 108, called by log_inbox
LogOpen(i) ==
    /\ procs[i].pc = "log_open"
    /\ inbox_log' = <<>>
    /\ Opened("inbox_log")
    /\ Goes(i, "log_open", [procs[i] EXCEPT !.pc = "log_dump"])
    /\ UNCHANGED <<now, state, tables, queue, processed_ids, uuids, config, batch,
                   stored, inputs>>

\* JsonStorage._write_table, line 109, called by log_inbox: the list that
\* was read is written with the entry appended, as data; the notification
\* follows
LogDumped(i, data) ==
    \E d \in Dumps("inbox_log", LogSize(data, 1), LogSize(data, 2)) :
       /\ disk' = [disk EXCEPT !["inbox_log"] = d]
       /\ inbox_log' = IF d.parses THEN data ELSE <<>>
       /\ Goes(i, "log_dump",
               [procs[i] EXCEPT
                   !.pc = "run", !.items = Tail(@),
                   !.logged = IF d.parses THEN Append(@, <<Len(data), data[Len(data)]>>)
                              ELSE @])

LogDump(i) ==
    /\ procs[i].pc = "log_dump"
    /\ LogDumped(i, Logs(procs[i]).w.inbox_log)
    /\ UNCHANGED <<now, state, tables, queue, processed_ids, uuids, config, batch,
                   stored, inputs>>

\* Pipeline.run line 36: the loop is over; handler returns
RunLoop(i) ==
    /\ procs[i].pc = "run"
    /\ procs[i].items = <<>>
    /\ Goes(i, "run", Returned(procs[i]))
    /\ UNCHANGED <<now, state, tables, inbox_log, queue, processed_ids, uuids, config,
                   batch, stored, inputs, disk>>

NextConcurrent ==
    \E i \in Invocations :
        \/ Start(i) \/ LoadState(i) \/ ListRecords(i) \/ ListOpen(i) \/ Reload(i) \/ Act(i)
        \/ OpenTable(i) \/ DumpTable(i) \/ OpenState(i) \/ DumpState(i)
        \/ LoadIds(i) \/ OpenIds(i) \/ DumpIds(i)
        \/ ReadQueue(i) \/ OpenQueue(i) \/ DumpQueue(i)
        \/ FetchRead(i) \/ FetchOpen(i) \/ FetchDump(i)
        \/ LogRead(i) \/ LogOpen(i) \/ LogDump(i) \/ RunLoop(i)

SpecConcurrent == InitConcurrent /\ [][NextConcurrent]_vars


-----------------------------------------------------------------------------
(* the list commands over stores of many shapes: the store is drawn at the *)
(* start and one list command is handled                                   *)

\* rows of the small stores
MaxRows == 3

\* rows of the large stores
MaxBig == 21

\* list commands in a behaviour
MaxLists == 1

TxtNext == <<110, 101, 120, 116>>  \* "next"

\* the status texts of the rows: none, one of each bucket, a terminal one
RowStatuses ==
    { <<>>, <<65, 99, 116, 105, 118, 101>>, <<116, 111, 100, 111>>, <<108, 97, 116, 101, 114>>,  \* "Active", "todo", "later"
      <<68, 79, 78, 69, 32>> }  \* "DONE "

\* the priority texts of the rows: none, and 1
RowPriorities == { <<>>, <<49>> }  \* "1"

\* the ages of the rows in minutes: ten minutes, twenty days, thirty days
RowAges == {10, 20 * MinutesPerDay, 30 * MinutesPerDay}

\* the fields of a row with the status and the priority
RowFields(status, priority) ==
    << <<"name", <<114>>>> >>  \* "r"
    \o (IF status = <<>> THEN <<>> ELSE << <<"status", status>> >>)
    \o (IF priority = <<>> THEN <<>> ELSE << <<"Priority", priority>> >>)

\* the second row of a store is an admin one, the others are projects
RowCategory(k) == IF k = 2 THEN "admin" ELSE "projects"

\* the tables that hold the rows kinds[1..n], row k with the id k
RECURSIVE TablesOf(_, _)
TablesOf(kinds, n) ==
    IF n = 0 THEN EmptyTables
    ELSE [TablesOf(kinds, n - 1) EXCEPT ![RowCategory(n)] =
             Append(@, StoreRow(RowCategory(n),
                                RowFields(kinds[n].status, kinds[n].priority), n,
                                EpochStart - kinds[n].age))]

RowKinds == [status : RowStatuses, priority : RowPriorities, age : RowAges]

\* a store of n project rows, all in the last day or all of them old, row k
\* created k minutes before the first, with the priority 1 + (k mod 3)
BigTables(n, age) ==
    [EmptyTables EXCEPT !["projects"] =
        [k \in 1..n |-> StoreRow("projects", RowFields(<<>>, <<DigitSeq[2 + (k % 3)]>>), k,
                                  EpochStart - age - k)]]

InitSelect ==
    /\ InitCommon
    /\ state = EmptyMap
    /\ \/ \E n \in (MaxBig - 1)..MaxBig : \E age \in {10, 20 * MinutesPerDay} :
             tables = BigTables(n, age)
       \/ \E n \in 0..MaxRows : \E kinds \in [1..n -> RowKinds] : tables = TablesOf(kinds, n)
    /\ uuids = RowCount(tables)
    /\ config = Config(60, FALSE)

\* a delivery of `today`, `this week?` or `next`, handled from beginning to
\* end
ListCommand ==
    /\ inputs < MaxLists
    /\ \E text \in {TxtToday, TxtWeek, TxtNext} :
          Leave(Notification(Delivery("m1", <<"r1", "p1">>, text, <<>>, "person")),
                Delivery("m1", <<"r1", "p1">>, text, <<>>, "person"),
                lambda_handler(Notification(Delivery("m1", <<"r1", "p1">>, text, <<>>, "person")),
                               Stored, NoEnv))
    /\ inputs' = inputs + 1
    /\ UNCHANGED <<now, batch, stored, config, procs, disk>>

NextSelect == ListCommand

SpecSelect == InitSelect /\ [][NextSelect]_vars

-----------------------------------------------------------------------------
(* _priority_value on records of many shapes: the record is drawn at the   *)
(* start and the function applied to it                                    *)

\* applications of the function in a behaviour
MaxCalls == 1

\* what the Priority and priority fields hold (str() of it), "" for an empty
\* text
PriorityTexts ==
    { <<>>, <<49>>, <<50>>, <<51>>, <<52>>, <<53>>, <<48>>, <<55>>, <<54>>,  \* "1", "2", "3", "4", "5", "0", "7", "6"
      <<97, 98, 99>>, <<32, 50, 32>>, <<43, 52>>, <<45, 49>>, <<50, 46, 48>>,  \* "abc", " 2 ", "+4", "-1", "2.0"
      <<49, 48>>, <<48, 95, 52>>, <<49, 95, 95, 48>>, <<95, 49>>,  \* "10", "0_4", "1__0", "_1"
      <<57, 57, 57, 57, 57, 57, 57, 57, 57, 57, 57>>,  \* "99999999999"
      <<1780>>, <<1783>>, <<5760, 52>> }  \* U+06F4 and U+06F7, the digits four and seven of Persian; U+1680, "4"

\* the fields of a record with the two texts; absent stands for no such key
Absent == <<97, 98, 115, 101, 110, 116>>  \* "absent"

PriorityFields(upper, lower) ==
    (IF upper = Absent THEN <<>> ELSE << <<"Priority", upper>> >>)
    \o (IF lower = Absent THEN <<>> ELSE << <<"priority", lower>> >>)

InitPriority ==
    /\ InitCommon
    /\ state = EmptyMap
    /\ \E upper \in PriorityTexts \cup {Absent} : \E lower \in PriorityTexts \cup {Absent} :
          tables = [EmptyTables EXCEPT !["projects"] =
                       << StoreRow("projects", PriorityFields(upper, lower), 1, EpochStart) >>]
    /\ uuids = 1
    /\ config = Config(60, FALSE)

\* _priority_value(record) on the record of the store
ApplyPriority ==
    /\ inputs < MaxCalls
    /\ last' = [op |-> "priority", record |-> tables["projects"][1],
                ret |-> priority_value(tables["projects"][1])]
    /\ inputs' = inputs + 1
    /\ UNCHANGED <<now, state, tables, inbox_log, queue, processed_ids, uuids, config,
                   batch, stored, procs, disk>>

NextPriority == ApplyPriority

SpecPriority == InitPriority /\ [][NextPriority]_vars

-----------------------------------------------------------------------------
(* the JSON storage on its own: records are stored and updated, as the     *)
(* pipeline, the chat dialogue and cli.py cmd_update do                    *)

\* Storage calls in a behaviour
MaxStorageCalls == 3

\* "A", "B"
ValA == <<65>>

ValB == <<66>>  \* "B"

\* the records that are stored
StorageRecords ==
    { <<>>, << <<"name", ValA>> >>, << <<"title", ValB>> >>,
      << <<"name", ValA>>, <<"title", ValB>> >>, << <<"name", <<>>>>, <<"title", ValB>> >> }

InitStorage ==
    /\ InitCommon
    /\ state = EmptyMap
    /\ tables = EmptyTables
    /\ uuids = 0
    /\ config = Config(60, FALSE)

\* JsonStorage.store(category, record)
StoreRecord ==
    /\ inputs < MaxStorageCalls
    /\ \E category \in {"projects", "admin"} : \E record \in StorageRecords :
          /\ tables' = store(tables, category, record, uuids + 1, now)
          /\ last' = [op |-> "store", category |-> category, record_id |-> uuids + 1,
                      raised |-> FALSE]
    /\ uuids' = uuids + 1
    /\ inputs' = inputs + 1
    /\ UNCHANGED <<now, state, inbox_log, queue, processed_ids, config, batch, stored, procs, disk>>

\* JsonStorage.update_record(category, record_id, {key: value}); RuntimeError
\* when the table has no row with the id
UpdateRecord ==
    /\ inputs < MaxStorageCalls
    /\ \E category \in {"projects", "admin"} : \E record_id \in 1..(uuids + 1) :
       \E key \in {"name", "title", "notes"} : \E value \in {<<>>, ValOk} :
          /\ tables' = IF RecordFound(tables, category, record_id)
                       THEN update_record(tables, category, record_id, key, value)
                       ELSE tables
          /\ last' = [op |-> "update", category |-> category, record_id |-> record_id,
                      raised |-> ~RecordFound(tables, category, record_id)]
    /\ inputs' = inputs + 1
    /\ UNCHANGED <<now, state, inbox_log, queue, processed_ids, uuids, config, batch,
                   stored, procs, disk>>

NextStorage == StoreRecord \/ UpdateRecord

SpecStorage == InitStorage /\ [][NextStorage]_vars

-----------------------------------------------------------------------------
(* adapters/ai_rules.py: the rule-based classifier, and the pipeline run   *)
(* with it                                                                  *)

\* CATEGORY_KEYWORDS, in the order of the dict
RuleCategories == <<"people", "projects", "ideas", "admin">>

CATEGORY_KEYWORDS ==
    [people   |-> << <<109, 101, 101, 116>>, <<109, 101, 116>>, <<99, 97, 108, 108>>, <<99, 111, 102, 102, 101, 101>>, <<105, 110, 116, 114, 111>>, <<102, 111, 108, 108, 111, 119, 32, 117, 112>>, <<99, 111, 110, 110, 101, 99, 116>> >>,  \* "meet", "met", "call", "coffee", "intro", "follow up", "connect"
     projects |-> << <<112, 114, 111, 106, 101, 99, 116>>, <<98, 117, 105, 108, 100>>, <<108, 97, 117, 110, 99, 104>>, <<115, 104, 105, 112>>, <<100, 101, 97, 100, 108, 105, 110, 101>>, <<109, 105, 108, 101, 115, 116, 111, 110, 101>> >>,  \* "project", "build", "launch", "ship", "deadline", "milestone"
     ideas    |-> << <<105, 100, 101, 97>>, <<119, 104, 97, 116, 32, 105, 102>>, <<109, 97, 121, 98, 101>>, <<99, 111, 110, 99, 101, 112, 116>>, <<104, 121, 112, 111, 116, 104, 101, 115, 105, 115>> >>,  \* "idea", "what if", "maybe", "concept", "hypothesis"
     admin    |-> << <<112, 97, 121>>, <<105, 110, 118, 111, 105, 99, 101>>, <<114, 101, 110, 101, 119>>, <<115, 99, 104, 101, 100, 117, 108, 101>>, <<115, 117, 98, 109, 105, 116>>, <<116, 111, 100, 111>>, <<116, 97, 115, 107>> >>]  \* "pay", "invoice", "renew", "schedule", "submit", "todo", "task"

\* keyword in text
Contains(text, keyword) ==
    \E i \in 1..(Len(text) - Len(keyword) + 1) :
        SubSeq(text, i, i + Len(keyword) - 1) = keyword

\* re.findall(r"\w+", text)
RECURSIVE FindWords(_)
FindWords(text) ==
    IF text = <<>> THEN <<>>
    ELSE IF text[1] \notin WordChars THEN FindWords(Drop(text, SpanNot(text, WordChars)))
    ELSE <<SubSeq(text, 1, Span(text, WordChars))>>
         \o FindWords(Drop(text, Span(text, WordChars)))

\* " ".join(words)
RECURSIVE JoinWords(_)
JoinWords(words) ==
    IF words = <<>> THEN <<>>
    ELSE IF Len(words) = 1 THEN words[1]
    ELSE words[1] \o <<32>> \o JoinWords(Tail(words))  \* " "

\* _simple_title, lines 19-21
simple_title(text) ==
    IF FindWords(text) = <<>> THEN Untitled ELSE JoinWords(Take(FindWords(text), 6))

\* the score of a category: the number of its keywords in the lowered text
KeywordScore(text, category) ==
    Cardinality({ i \in 1..Len(CATEGORY_KEYWORDS[category]) :
                    Contains(Lower(text), CATEGORY_KEYWORDS[category][i]) })

\* max(scores, key=scores.get): the first category of the highest score
BestIndex(text) ==
    CHOOSE i \in 1..4 :
        /\ \A j \in 1..4 : KeywordScore(text, RuleCategories[j])
                               <= KeywordScore(text, RuleCategories[i])
        /\ \A j \in 1..(i - 1) : KeywordScore(text, RuleCategories[j])
                                     < KeywordScore(text, RuleCategories[i])

\* _best_category, lines 24-36: <<category, confidence in hundredths>>
best_category(text) ==
    LET best  == RuleCategories[BestIndex(text)]
        score == KeywordScore(text, best)
    IN  IF score = 0 THEN <<"admin", 45>>
        ELSE <<best, IF 50 + score * 15 < 90 THEN 50 + score * 15 ELSE 90>>

\* RuleBasedAI.classify, lines 40-80
classify(text, time) ==
    LET category == best_category(text)[1]
        title    == simple_title(text)
    IN  Classification(category, best_category(text)[2], title,
            IF category = "people"
            THEN << <<"name", title>>, <<"context", text>>, <<"follow_ups", <<>>>>,
                    <<"last_touched", TodayIso(time)>> >>
            ELSE IF category = "projects"
            THEN << <<"name", title>>, <<"status", <<97, 99, 116, 105, 118, 101>>>>,  \* "active"
                    <<"next_action", text>>, <<"notes", <<>>>> >>
            ELSE IF category = "ideas"
            THEN << <<"name", title>>, <<"one_liner", text>>, <<"notes", <<>>>> >>
            ELSE << <<"name", title>>, <<"status", <<111, 112, 101, 110>>>>,  \* "open"
                    <<"due_date", <<>>>>, <<"notes", text>> >>)

\* "project: Ship v2 by Friday"
TxtProjectShip == <<112, 114, 111, 106, 101, 99, 116, 58, 32, 83, 104, 105, 112, 32, 118, 50, 32, 98, 121, 32, 70, 114, 105, 100, 97, 121>>

\* "call mom"
TxtCallMom == <<99, 97, 108, 108, 32, 109, 111, 109>>

\* "what if maybe: a concept"
TxtWhatIf == <<119, 104, 97, 116, 32, 105, 102, 32, 109, 97, 121, 98, 101, 58, 32, 97, 32, 99, 111, 110, 99, 101, 112, 116>>

\* the texts that are captured
RuleTexts == {TxtProjectShip, TxtCallMom, TxtWhatIf, TxtFree}

InitRules ==
    /\ InitCommon
    /\ state = EmptyMap
    /\ tables = EmptyTables
    /\ uuids = 0
    /\ config \in {Config(60, TRUE), Config(70, TRUE)}

\* cli.py cmd_capture of one of the texts
CaptureText ==
    /\ inputs < MaxItems
    /\ batch = <<>>
    /\ \E text \in RuleTexts :
          /\ queue' = enqueue(queue, text, "cli", uuids + 1, now)
          /\ last' = [op |-> "capture", text |-> text]
    /\ uuids' = uuids + 1
    /\ inputs' = inputs + 1
    /\ UNCHANGED <<now, state, tables, inbox_log, processed_ids, config, batch, stored, procs, disk>>

\* Pipeline.run, lines 31-35, with RuleBasedAI as the AI collaborator and
\* every collaborator working
RunRule ==
    /\ batch # <<>>
    /\ batch[1] # <<>>
    /\ Turn(Head(batch[1]),
            [result |-> classify(Head(batch[1]).text, now), fault |-> "none"],
            handle_classification([tables |-> tables, inbox_log |-> inbox_log,
                                   uuids |-> uuids, calls |-> <<>>, posts |-> <<>>,
                                   raised |-> FALSE],
                                  Head(batch[1]), classify(Head(batch[1]).text, now), "none",
                                  config.confidence_threshold, now))
    /\ UNCHANGED <<now, state, queue, processed_ids, config, inputs, procs, disk>>

NextRules == CaptureText \/ RunFetch \/ RunRule \/ RunReturn

SpecRules == InitRules /\ [][NextRules]_vars

-----------------------------------------------------------------------------
(* the update dialogue over the records the pipeline files: the store is   *)
(* drawn at the start from what one run of the pipeline leaves behind, and *)
(* the messages of the dialogue are handled                                 *)

\* messages in a behaviour
MaxMenuMsgs == 3

\* the item a capture of `buy milk` put in the queue ten minutes ago
FiledItem == enqueue(<<>>, TxtFree, "cli", 1, EpochStart - 10)[1]

\* what Pipeline._handle_classification leaves behind for the item and the
\* answer, in an empty store, under the threshold 0.6
FiledBy(result) ==
    handle_classification([tables |-> EmptyTables, inbox_log |-> <<>>, uuids |-> 1,
                           calls |-> <<>>, posts |-> <<>>, raised |-> FALSE],
                          FiledItem, result, "none", 60, EpochStart - 10).w

InitMenu ==
    /\ now = EpochStart
    /\ \E result \in GateResults :
          /\ tables = FiledBy(result).tables
          /\ inbox_log = FiledBy(result).inbox_log
          /\ uuids = FiledBy(result).uuids
    /\ state = EmptyMap
    /\ queue = <<>>
    /\ processed_ids = {}
    /\ batch = <<>>
    /\ stored = <<>>
    /\ last = [op |-> "init"]
    /\ inputs = 0
    /\ procs = [i \in Invocations |-> Idle]
    /\ disk = [f \in Files |-> Whole]
    /\ config = Config(60, FALSE)

\* the texts of the dialogue
MenuTexts == {TxtToday, TxtUpdate1, TxtNum1, TxtNum1Val, TxtNum9, TxtCancel, TxtFree}

\* a delivery of one of the texts, handled from beginning to end
MenuMessage ==
    /\ inputs < MaxMenuMsgs
    /\ \E text \in MenuTexts :
          \E env \in Envs(Delivery("m1", <<"r1", "p1">>, text, <<>>, "person")) :
             Leave(Notification(Delivery("m1", <<"r1", "p1">>, text, <<>>, "person")),
                   Delivery("m1", <<"r1", "p1">>, text, <<>>, "person"),
                   lambda_handler(Notification(Delivery("m1", <<"r1", "p1">>, text, <<>>, "person")),
                                  Stored, env))
    /\ inputs' = inputs + 1
    /\ UNCHANGED <<now, batch, stored, config, procs, disk>>

NextMenu == MenuMessage

SpecMenu == InitMenu /\ [][NextMenu]_vars

-----------------------------------------------------------------------------
(* the pipeline's claims, on SpecGate                                      *)

\* the confidence a claim calls effective: the original one, or at most 0.4
\* when the category is none of the four
ClaimedConfidence(result) ==
    IF result.category \in {"people", "projects", "ideas", "admin"}
    THEN result.confidence
    ELSE IF result.confidence < 40 THEN result.confidence ELSE 40

\* C1: whenever _handle_classification takes an item whose effective
\* confidence is below the threshold, it makes no Storage.store call and
\* leaves the tables as they are, returns no record, and appends exactly one
\* inbox-log entry, of status needs_review (none when log_inbox itself raises).
C1_BelowThresholdNeverStored ==
    [][ ( /\ last'.op = "handle"
          /\ last'.fault # "ai"
          /\ ClaimedConfidence(last'.result) < config.confidence_threshold )
        => ( /\ \A i \in 1..Len(last'.calls) : last'.calls[i].op # "store"
             /\ tables' = tables
             /\ last'.ret = <<>>
             /\ IF last'.fault = "log_inbox"
                THEN inbox_log' = inbox_log
                ELSE /\ Len(inbox_log') = Len(inbox_log) + 1
                     /\ SubSeq(inbox_log', 1, Len(inbox_log)) = inbox_log
                     /\ inbox_log'[Len(inbox_log')].status = "needs_review"
                     /\ inbox_log'[Len(inbox_log')].source_id = last'.item.item_id ) ]_vars

\* an item of an unknown category and confidence 0.95 went to review
C1_Witness ==
    /\ last.op = "handle"
    /\ last.fault = "none"
    /\ last.result.category = "misc"
    /\ last.result.confidence = 95
    /\ config.confidence_threshold = 60
    /\ last.ret = <<>>
    /\ inbox_log # <<>>
    /\ inbox_log[Len(inbox_log)].status = "needs_review"

\* the filed entries that carry the id of a record
FiledFor(record_id) ==
    {i \in 1..Len(inbox_log) :
        inbox_log[i].status = "filed" /\ inbox_log[i].record_id = <<record_id>>}

\* C2: in every reachable state every stored record has exactly one filed
\* inbox-log entry carrying its record_id, and every filed entry refers to a
\* stored record.
C2_StoreAndLogNeverDiverge ==
    /\ \A c \in DOMAIN tables : \A i \in 1..Len(tables[c]) :
          Cardinality(FiledFor(tables[c][i].id)) = 1
    /\ \A i \in 1..Len(inbox_log) :
          inbox_log[i].status = "filed"
          => \E c \in DOMAIN tables : RecordFound(tables, c, inbox_log[i].record_id[1])


-----------------------------------------------------------------------------
(* the conversation's claims, on Spec                                      *)

\* the step handles a text message that passed the ingress filters
Handled == last'.op = "message" /\ last'.branch # "ignored"

\* the sender's stored session before the step: it is there and the TTL has
\* not run out on it
LiveBefore ==
    /\ last'.before # <<>>
    /\ ~(last'.before[1].updated_at < now - 30)

\* the sender's pending_update before the step, <<>> for none
PendingBefore == IF LiveBefore THEN last'.before[1].pending_update ELSE <<>>

\* the sender's stored session after the step
SessionAfter ==
    IF last'.room \in DOMAIN state' /\ last'.person \in DOMAIN state'[last'.room]
    THEN <<state'[last'.room][last'.person]>> ELSE <<>>

\* the message is `cancel` or `update cancel`, with or without the bot's prefix
CancelText(text) == text \in {TxtCancel, Strip(TxtUpdateCancel)}

\* the message is a list command
ListText(text) == Parsed(text).command \in {"today", "week", "next"}

\* the rest of the step's effects: nothing but the session store changes
OnlySessionsChange ==
    /\ tables' = tables
    /\ inbox_log' = inbox_log
    /\ queue' = queue
    /\ processed_ids' = processed_ids
    /\ last'.enqueued = <<>>

\* the list command leaves a session with a list and no pending_update
C3_Listed ==
    ( /\ Handled /\ PendingBefore = <<>>
      /\ ~CancelText(last'.text) /\ ListText(last'.text)
      /\ Parsed(last'.text).update_request = NoNumber )
    => ( /\ SessionAfter # <<>>
         /\ SessionAfter[1].pending_update = <<>>
         /\ SessionAfter[1].updated_at = now
         /\ last'.calls = <<>> )

\* `update n` with n in 1..N makes the n-th entry of last_list the pending one
C3_Selected ==
    ( /\ Handled /\ LiveBefore /\ PendingBefore = <<>>
      /\ Parsed(last'.text).update_request \in 1..Len(last'.before[1].last_list) )
    => LET entry == last'.before[1].last_list[Parsed(last'.text).update_request]
       IN  /\ last'.calls = <<>>
           /\ OnlySessionsChange
           /\ SessionAfter # <<>>
           /\ SessionAfter[1].last_list = last'.before[1].last_list
           /\ SessionAfter[1].pending_update # <<>>
           /\ SessionAfter[1].pending_update[1].record_id = entry.record_id
           /\ SessionAfter[1].pending_update[1].category = entry.category
           /\ SessionAfter[1].pending_update[1].awaiting_value = FALSE

\* `k value` with k in 1..(number of field options) makes the one call
C3_Applied ==
    ( /\ Handled /\ PendingBefore # <<>>
      /\ ~PendingBefore[1].awaiting_value
      /\ ~CancelText(last'.text)
      /\ Parsed(last'.text).field_selection[1] \in 1..Len(PendingBefore[1].fields)
      /\ Parsed(last'.text).field_selection[2] # <<>> )
    => LET pending == PendingBefore[1]
           option  == pending.fields[Parsed(last'.text).field_selection[1]]
           value   == Parsed(last'.text).field_selection[2]
       IN  /\ last'.calls = <<[op |-> "update_record", category |-> pending.category,
                               record_id |-> pending.record_id, key |-> option.key,
                               value |-> value]>>
           /\ ~last'.raised
              => /\ SessionAfter # <<>>
                 /\ SessionAfter[1].pending_update = <<>>
                 /\ SessionAfter[1].last_list = last'.before[1].last_list
                 /\ Get(tables'[pending.category][RowIndex(tables', pending.category,
                                                           pending.record_id)].fields,
                        option.key, None) = value

\* between the sender's messages nobody else touches the sender's session:
\* a message leaves the live sessions of the other senders as they are
C3_Undisturbed ==
    last'.op = "message"
    => \A k \in Senders :
          ( /\ k # <<last'.room, last'.person>>
            /\ HasSession(state, k[1], k[2])
            /\ ~(state[k[1]][k[2]].updated_at < now - 30) )
          => /\ HasSession(state', k[1], k[2])
             /\ state'[k[1]][k[2]] = state[k[1]][k[2]]

\* C3: the round trip list command, `update n`, `k value` of one sender whose
\* session stays live: the list command leaves a list and no pending_update;
\* `update n` with n in 1..N makes no Storage call and pends entry n of the
\* list; `k value` with k among the field options then makes exactly one
\* Storage.update_record call, on that entry's category and record_id, for the
\* key of option k and the value sent, and when the call returns the
\* pending_update is null; what other senders send in between leaves the
\* session as it is.
C3_RoundTrip ==
    [][C3_Listed /\ C3_Selected /\ C3_Applied /\ C3_Undisturbed]_vars

\* the third message of the round trip was handled: the update is made and
\* the pending_update is gone
C3_Witness ==
    /\ last.op = "message"
    /\ last.branch = "field_selection"
    /\ last.body = "updated"
    /\ last.text = TxtNum1Val
    /\ last.before[1].pending_update # <<>>
    /\ last.before[1].last_list # <<>>
    /\ last.calls # <<>>
    /\ last.calls[1].record_id = last.before[1].last_list[1].record_id
    /\ last.calls[1].value = ValNew
    /\ state[last.room][last.person].pending_update = <<>>


\* a bare number k among the field options pins option k and asks for the value
C4_Pinned ==
    ( /\ Handled /\ PendingBefore # <<>>
      /\ ~PendingBefore[1].awaiting_value
      /\ ~CancelText(last'.text)
      /\ Parsed(last'.text).field_selection[1] \in 1..Len(PendingBefore[1].fields)
      /\ Parsed(last'.text).field_selection[2] = <<>> )
    => LET pending == PendingBefore[1]
           option  == pending.fields[Parsed(last'.text).field_selection[1]]
       IN  /\ last'.calls = <<>>
           /\ OnlySessionsChange
           /\ SessionAfter # <<>>
           /\ SessionAfter[1].last_list = last'.before[1].last_list
           /\ SessionAfter[1].pending_update =
                 <<[pending EXCEPT !.awaiting_value = TRUE, !.field_key = option.key,
                                   !.field_name = option.name]>>

\* the next message that is no cancel is the value, as it was sent
C4_ValueTaken ==
    ( /\ Handled /\ PendingBefore # <<>>
      /\ PendingBefore[1].awaiting_value
      /\ ~CancelText(last'.text) )
    => LET pending == PendingBefore[1]
       IN  /\ last'.calls = <<[op |-> "update_record", category |-> pending.category,
                               record_id |-> pending.record_id, key |-> pending.field_key,
                               value |-> last'.text]>>
           /\ last'.enqueued = <<>>
           /\ ~last'.raised
              => /\ SessionAfter # <<>>
                 /\ SessionAfter[1].pending_update = <<>>
                 /\ Get(tables'[pending.category][RowIndex(tables', pending.category,
                                                           pending.record_id)].fields,
                        pending.field_key, None) = last'.text

\* C4: in a live session with a pending_update and awaiting_value false, a
\* bare number k among the field options makes no Storage call and leaves the
\* pending_update with awaiting_value true and field_key and field_name those
\* of option k; with awaiting_value true, the sender's next message that is no
\* cancel goes, exactly as it was sent (stripped of surrounding blanks only),
\* into exactly one Storage.update_record call on the pending record and the
\* pinned key, and when the call returns the pending_update is null.
C4_TwoStepUpdate == [][C4_Pinned /\ C4_ValueTaken]_vars

\* a message that reads as a command was taken as the value
C4_Witness ==
    /\ last.op = "message"
    /\ last.branch = "awaiting_value"
    /\ last.body = "updated"
    /\ last.text = TxtToday
    /\ last.before[1].pending_update # <<>>
    /\ last.before[1].pending_update[1].awaiting_value
    /\ last.calls # <<>>
    /\ last.calls[1].key = last.before[1].pending_update[1].field_key
    /\ last.calls[1].value = TxtToday
    /\ state[last.room][last.person].pending_update = <<>>

\* the length of the sender's last_list before the step, 0 without a live session
ListLengthBefore == IF LiveBefore THEN Len(last'.before[1].last_list) ELSE 0

\* the out-of-range answer: the reply, the stored state as it was, no call
OutOfRangeAnswer ==
    /\ last'.body = "update selection out of range"
    /\ last'.posts = <<"That number is out of range. Try again.">>
    /\ last'.status = 200
    /\ state' = state
    /\ last'.calls = <<>>
    /\ OnlySessionsChange

\* the number n the `update <n>` of a text names, whether or not int() takes
\* its numeral; NoNumber when the text is no `update <n>`
UpdateNamed(text) ==
    IF Parsed(text).update_request = ValueError
    THEN DecimalValue(update_digits(text))
    ELSE Parsed(text).update_request

\* the text is an `update <n>` with n below 1 or above the length of the
\* sender's last_list
NamesOutOfRange(text) ==
    /\ Parsed(text).update_request # NoNumber
    /\ UpdateNamed(text) < 1 \/ UpdateNamed(text) > ListLengthBefore

\* C5 for every sender: `update n` with n below 1 or above the length of the
\* sender's last_list gets the out-of-range reply and changes nothing,
\* whatever the sender's session is.
C5_OutOfRangeAlways ==
    [][ (Handled /\ NamesOutOfRange(last'.text)) => OutOfRangeAnswer ]_vars

\* C5: for a sender with a live session, a last_list that is not empty and no
\* pending_update, `update n` with n = 0 or n above the length of last_list
\* gets the out-of-range reply, the stored session store stays as it was (no
\* pending_update, same last_list) and no Storage call is made.
C5_OutOfRangeUpdate ==
    [][ ( /\ Handled /\ LiveBefore /\ PendingBefore = <<>>
          /\ last'.before[1].last_list # <<>>
          /\ NamesOutOfRange(last'.text) )
        => OutOfRangeAnswer ]_vars

\* what of C5 the code keeps: the same for an n whose numeral has at most
\* MaxStrDigits digits
C5_OutOfRangeShort ==
    [][ ( /\ Handled /\ LiveBefore /\ PendingBefore = <<>>
          /\ last'.before[1].last_list # <<>>
          /\ NamesOutOfRange(last'.text)
          /\ Parsed(last'.text).update_request # ValueError )
        => OutOfRangeAnswer ]_vars

\* `update` with a numeral of MaxStrDigits + 1 digits, sent while the
\* sender's list had entries and nothing was pending, ended in the
\* ValueError of int() and got no reply
C5_LongNumeralRaised ==
    /\ last.op = "message"
    /\ last.text = TxtUpdateLong
    /\ last.raised
    /\ last.posts = <<>>
    /\ last.before # <<>>
    /\ last.before[1].last_list # <<>>
    /\ last.before[1].pending_update = <<>>

\* `update: 2` was answered as out of range for a list of one entry
C5_Witness ==
    /\ last.op = "message"
    /\ last.text = TxtUpdate2
    /\ last.body = "update selection out of range"
    /\ last.before # <<>>
    /\ Len(last.before[1].last_list) = 1
    /\ last.before[1].pending_update = <<>>
    /\ state[last.room][last.person] = last.before[1]

\* the field number a text names, whether or not int() takes its numeral;
\* NoNumber when the text starts with no number
SelectionNamed(text) ==
    IF Parsed(text).field_selection[1] = ValueError
    THEN DecimalValue(selection_digits(text))
    ELSE Parsed(text).field_selection[1]

\* the reprompt: one of the two replies, the stored state as it was, no call
Reprompted ==
    /\ last'.posts \in { <<"Reply with a field number">>,
                         <<"That number is out of range. Try again.">> }
    /\ last'.status = 200
    /\ state' = state
    /\ last'.calls = <<>>
    /\ OnlySessionsChange

\* C6: while a live session has a pending_update with awaiting_value false, a
\* message that is no cancel and gives no number, or a number outside
\* 1..len(pending_update.fields), gets a reprompt; the stored session store
\* stays as it was and Storage.update_record is not called.
C6_MalformedSelection ==
    [][ ( /\ Handled /\ PendingBefore # <<>>
          /\ ~PendingBefore[1].awaiting_value
          /\ ~CancelText(last'.text)
          /\ SelectionNamed(last'.text) \notin 1..Len(PendingBefore[1].fields) )
        => Reprompted ]_vars

\* what of C6 the code keeps: the same for a message that gives no number or
\* one whose numeral has at most MaxStrDigits digits
C6_MalformedShort ==
    [][ ( /\ Handled /\ PendingBefore # <<>>
          /\ ~PendingBefore[1].awaiting_value
          /\ ~CancelText(last'.text)
          /\ SelectionNamed(last'.text) \notin 1..Len(PendingBefore[1].fields)
          /\ Parsed(last'.text).field_selection[1] # ValueError )
        => Reprompted ]_vars

\* a field number of MaxStrDigits + 1 digits, sent while a pending_update
\* waited for the field, ended in the ValueError of int() and got no reply
C6_LongNumeralRaised ==
    /\ last.op = "message"
    /\ last.text = TxtNumLong
    /\ last.raised
    /\ last.posts = <<>>
    /\ last.before # <<>>
    /\ last.before[1].pending_update # <<>>
    /\ ~last.before[1].pending_update[1].awaiting_value

\* the field number 9 was answered as out of range, the pending_update kept
C6_Witness ==
    /\ last.op = "message"
    /\ last.text = TxtNum9
    /\ last.body = "field selection out of range"
    /\ last.before # <<>>
    /\ last.before[1].pending_update # <<>>
    /\ state[last.room][last.person] = last.before[1]


\* the step handles a cancel message
Cancelled == Handled /\ CancelText(last'.text)

\* the store's sessions other than the sender's, and the sender's last_list,
\* are after the step what they were before
StoreKeptButSender ==
    /\ DOMAIN state' = DOMAIN state
    /\ \A r \in DOMAIN state :
          /\ DOMAIN state'[r] = DOMAIN state[r]
          /\ \A q \in DOMAIN state[r] :
                IF <<r, q>> = <<last'.room, last'.person>>
                THEN state'[r][q].last_list = state[r][q].last_list
                ELSE state'[r][q] = state[r][q]

\* C7: whatever the sender's session is (listed, field-prompted, awaiting a
\* value), `cancel` or `update cancel` leaves the sender's pending_update null
\* and does nothing else to what is stored: no Storage call, no capture
\* enqueued, the sender's last_list and everybody else's sessions as before;
\* of the sender's session only pending_update and updated_at may change.
C7_CancelClearsPending ==
    [][ Cancelled
        => ( /\ last'.status = 200
             /\ last'.calls = <<>>
             /\ OnlySessionsChange
             /\ StoreKeptButSender
             /\ SessionAfter # <<>> => SessionAfter[1].pending_update = <<>>
             /\ SessionAfter = <<>> <=> last'.before = <<>> ) ]_vars

\* `update cancel`, sent while a value was awaited, cleared the pending_update
C7_Witness ==
    /\ last.op = "message"
    /\ last.branch = "cancel"
    /\ last.text = Strip(TxtUpdateCancel)
    /\ last.before # <<>>
    /\ last.before[1].pending_update # <<>>
    /\ last.before[1].pending_update[1].awaiting_value
    /\ state[last.room][last.person].pending_update = <<>>
    /\ state[last.room][last.person].last_list = last.before[1].last_list

\* the sender has no pending_update stored: no session, or one without
NoPendingStored == last'.before = <<>> \/ last'.before[1].pending_update = <<>>

\* C8 as the specification states it: a cancel of a sender without a
\* pending_update answers normally and changes nothing in the session store.
C8_CancelIsNoOp ==
    [][ (Cancelled /\ NoPendingStored)
        => (last'.status = 200 /\ ~last'.raised /\ state' = state) ]_vars

\* C8: a cancel of a sender without a pending_update answers normally, with no
\* error; without a session of the sender the session store stays as it was,
\* and with a session whose pending_update is null the store stays as it was
\* but for that session's updated_at, which becomes the current time.
C8_CancelWithoutPending ==
    [][ (Cancelled /\ NoPendingStored)
        => ( /\ last'.status = 200
             /\ ~last'.raised
             /\ last'.posts = <<"Update canceled.">>
             /\ IF last'.before = <<>>
                THEN state' = state
                ELSE state' = [state EXCEPT ![last'.room][last'.person].updated_at = now] ) ]_vars

\* a cancel without a pending_update moved the session's updated_at
C8_Witness ==
    /\ last.op = "message"
    /\ last.branch = "cancel"
    /\ last.before # <<>>
    /\ last.before[1].pending_update = <<>>
    /\ last.before[1].updated_at < now
    /\ state[last.room][last.person] = [last.before[1] EXCEPT !.updated_at = now]

\* the branch the order of the claim gives a message, from what the sender's
\* pending_update is and what the message reads as
ClaimedBranch(text, pending) ==
    IF CancelText(text) THEN "cancel"
    ELSE IF pending # <<>> /\ pending[1].awaiting_value THEN "awaiting_value"
    ELSE IF pending # <<>> THEN "field_selection"
    ELSE IF Parsed(text).update_request # NoNumber THEN "update_request"
    ELSE IF Parsed(text).command # None THEN "command"
    ELSE IF Parsed(text).fix_category # None THEN "fix"
    ELSE "default"

\* C9: a text message that passes the ingress filters is handled by the first
\* applicable branch in the order cancel, pending-awaiting-value,
\* pending-field-selection, update-request, command, fix-reply, default; while
\* the sender has a live pending_update, a message that is no cancel is
\* neither listed (last_list stays, no digest is posted) nor enqueued.
C9_DispatchOrder ==
    [][ Handled
        => ( /\ last'.branch = ClaimedBranch(last'.text, PendingBefore)
             /\ (PendingBefore # <<>> /\ ~CancelText(last'.text))
                => ( /\ last'.branch \in {"awaiting_value", "field_selection"}
                     /\ last'.enqueued = <<>>
                     /\ queue' = queue
                     /\ inbox_log' = inbox_log
                     /\ last'.posts \in { <<>>, <<"Updated">>, <<"Send the new value">>,
                                          <<"Reply with a field number">>,
                                          <<"That number is out of range. Try again.">> }
                     /\ SessionAfter # <<>>
                     /\ SessionAfter[1].last_list = last'.before[1].last_list ) ) ]_vars

\* a list command sent while a field was to be chosen got the reprompt
C9_Witness ==
    /\ last.op = "message"
    /\ last.text = TxtToday
    /\ last.branch = "field_selection"
    /\ last.body = "awaiting field selection"
    /\ last.before # <<>>
    /\ last.before[1].pending_update # <<>>

\* C10: after the handler has finished a text message that reached dispatch,
\* the stored session store holds no session whose updated_at is more than 30
\* minutes old and no room without sessions.
C10_StorePrunedAfterMessage ==
    (last.op = "message" /\ last.branch # "ignored")
    => \A r \in DOMAIN state :
          /\ DOMAIN state[r] # {}
          /\ \A q \in DOMAIN state[r] : ~(state[r][q].updated_at < now - 30)

\* the sender's stored session before the step has outlived the TTL
StaleBefore == last'.before # <<>> /\ Expired(last'.before[1], now)

\* C11: a message of a sender whose stored session has been idle longer than
\* the TTL is handled as if the session did not exist: it reaches neither of
\* the pending_update branches, makes no Storage.update_record call, an
\* `update n` gets what one of a sender without a session gets (the
\* missing-list reply, or the ValueError of int() for a numeral int() does
\* not take), and the only session of the sender that is live afterwards is
\* one a list command has just written.
C11_ExpiredSessionIsGone ==
    [][ (Handled /\ StaleBefore)
        => ( /\ last'.branch \notin {"awaiting_value", "field_selection"}
             /\ last'.calls = <<>> \/ last'.calls[1].op # "update_record"
             /\ last'.branch = "update_request"
                => last'.body = IF Parsed(last'.text).update_request = ValueError
                                THEN "exception" ELSE "missing list"
             /\ (SessionAfter # <<>> /\ ~Expired(SessionAfter[1], now))
                => last'.branch = "command" ) ]_vars

-----------------------------------------------------------------------------
(* the ingress claims, on Spec                                             *)

\* the step is a POST delivery
Delivered == last'.op \in {"event", "message"} /\ last'.event.httpMethod = "POST"

\* the bytes the body of the delivery stands for
DecodedBody == IF last'.event.isBase64Encoded THEN last'.event.body[2] ELSE last'.event.body

\* the delivery carries no signature, or one that is not the HMAC of the
\* decoded body under the configured secret
BadSignature ==
    \/ get_header(last'.event.headers, SignatureHeader) = <<>>
    \/ get_header(last'.event.headers, SignatureHeader)
          # hexdigest(config.webhook_secret, DecodedBody)

\* nothing that is stored changes, nothing is posted, called or enqueued
NothingHappens ==
    /\ state' = state
    /\ processed_ids' = processed_ids
    /\ queue' = queue
    /\ tables' = tables
    /\ inbox_log' = inbox_log
    /\ last'.posts = <<>>
    /\ last'.calls = <<>>
    /\ last'.enqueued = <<>>

\* C12: with a webhook secret configured, a delivery whose signature is
\* missing or is not the HMAC of the decoded body is answered 401 and not
\* processed: the session store, the processed ids, the capture queue and the
\* record store stay as they are, and no chat message is fetched or posted.
C12_BadSignatureRejected ==
    [][ (Delivered /\ config.webhook_secret # "" /\ BadSignature)
        => ( /\ last'.status = 401
             /\ last'.body = "invalid signature"
             /\ ~last'.fetched
             /\ NothingHappens ) ]_vars

\* the signature header is a text with a character outside ASCII
NonAsciiSignature ==
    /\ ~IsDigest(get_header(last'.event.headers, SignatureHeader))
    /\ \E i \in 1..Len(get_header(last'.event.headers, SignatureHeader)) :
          get_header(last'.event.headers, SignatureHeader)[i] > 127

\* the handling of a badly signed delivery as the code does it: never
\* processed, and answered 401 unless the header has a character outside
\* ASCII, for which the invocation ends with an exception
C12_BadSignatureNotProcessed ==
    [][ (Delivered /\ config.webhook_secret # "" /\ BadSignature)
        => ( /\ ~last'.fetched
             /\ NothingHappens
             /\ IF NonAsciiSignature THEN last'.raised
                ELSE last'.status = 401 /\ last'.body = "invalid signature" ) ]_vars

\* a delivery whose signature header is a character outside ASCII ended with
\* an exception
C12_SignatureRaised ==
    /\ last.op = "event"
    /\ last.raised
    /\ last.branch = "signature_error"
    /\ get_header(last.event.headers, SignatureHeader) = <<233>>  \* "é"
    /\ queue = <<>>
    /\ processed_ids = {}

\* a delivery signed for the base64 text of its body, not for the bytes, was
\* turned away
C12_Witness ==
    /\ last.op = "event"
    /\ last.status = 401
    /\ last.event.isBase64Encoded
    /\ get_header(last.event.headers, SignatureHeader)
          = hexdigest(config.webhook_secret, last.event.body)
    /\ ~last.fetched
    /\ queue = <<>>
    /\ processed_ids = {}

\* the author of the message is the bot: by type, by the configured email or
\* id, or by an email of the bot domain
AuthoredByBot ==
    \/ last'.author.personType = "bot"
    \/ last'.author.personEmail = WEBEX_BOT_EMAIL
    \/ last'.person = WEBEX_BOT_ID
    \/ EndsWith(last'.author.personEmail, BotSuffix)

\* C13: a delivery that is no messages/created event, or whose message has
\* an empty text or is authored by the bot (personType bot, the configured bot
\* email, the configured bot id, an @webex.bot email), is ignored: no session
\* changes, nothing is enqueued, no pipeline runs and no reply is posted; when
\* its signature is accepted the answer is a 200.
C13_IgnoredDeliveries ==
    [][ ( /\ Delivered
          /\ \/ DecodedBody[2].resource # "messages"
             \/ DecodedBody[2].event # "created"
             \/ last'.text = <<>>
             \/ AuthoredByBot )
        => ( /\ NothingHappens
             /\ uuids' = uuids
             /\ ~(config.webhook_secret # "" /\ BadSignature)
                => ( /\ last'.status = 200
                     /\ last'.body \in {"ignored", "ignored bot", "empty message"} ) ) ]_vars

\* free text sent under an @webex.bot email, as a person, was ignored
C13_Witness ==
    /\ last.op = "message"
    /\ last.author.personType = "person"
    /\ last.author.personEmail = RelayEmail
    /\ last.text = TxtFree
    /\ last.body = "ignored bot"
    /\ last.enqueued = <<>>
    /\ queue = <<>>

\* the banners the last step has posted: the filed and needs-review
\* notifications of a pipeline run, the numbered list of a list command, the
\* scheduled digest and the digest of the command line
BannersPosted ==
    IF last.op \in {"digest", "cli_digest"} THEN last.posts
    ELSE IF /\ last.op = "message"
            /\ \/ last.branch \in {"default", "fix"}
               \/ last.branch = "command" /\ last.body # "help sent"
    THEN last.posts
    ELSE <<>>

\* the message that brings a text back in, sent by a person
Relayed(text, sender) == Delivery("m2", sender, text, <<>>, "person")

\* the outcome r of handler from S is the one of the guard of line 446
NothingQueued(r, S) ==
    /\ r.branch = "ignored"
    /\ r.body = "ignored system message"
    /\ r.enqueued = <<>>
    /\ r.calls = <<>>
    /\ r.queue = S.queue
    /\ r.state = S.state
    /\ r.processed_ids = S.processed_ids

\* the delivery d, a person's, with the stripped text text that the parsers
\* make parsed of, is stopped by the guard of line 446
StoppedAtGuard(d, S, text, parsed) ==
    /\ ~is_bot(d)
    /\ text # <<>>
    /\ parsed.is_system_message
    /\ NothingQueued(Handling(d, S, NoEnv, text, parsed), S)

\* the banner, brought back by any sender, is stopped by the guard
StoppedForAll(banner, text, parsed, S) ==
    \A k \in Senders : StoppedAtGuard(Relayed(banner, k), S, text, parsed)

\* C14: every banner the system posts (filed and needs-review notifications,
\* the digests with their titles), delivered back as the message of any
\* sender that is not the bot, is ignored by the system-prefix guard before
\* dispatch: it is not enqueued and changes nothing.
C14_BannersAreIgnored ==
    \A i \in 1..Len(BannersPosted) :
        StoppedForAll(BannersPosted[i], Strip(BannersPosted[i]),
                      Parse(Strip(BannersPosted[i])), Stored)

\* a needs-review notification was posted by the run the message started
C14_Witness ==
    /\ last.op = "message"
    /\ last.branch = "default"
    /\ last.posts # <<>>
    /\ StartsWith(last.posts[1], <<78, 101, 101, 100, 115, 32, 114, 101, 118, 105, 101, 119, 58, 32, 39>>)  \* "Needs review: '"
    /\ inbox_log # <<>>
    /\ inbox_log[Len(inbox_log)].status = "needs_review"

\* a delivery has gone through the default branch
DefaultStep == last'.op = "message" /\ last'.branch = "default"

\* the run that followed the enqueue took every item of the queue, the new
\* one last, and logged each of them unless a call raised
ProcessedAgain ==
    /\ queue' = <<>>
    /\ last'.calls # <<>>
    /\ ~last'.raised =>
          /\ Len(inbox_log') = Len(inbox_log) + Len(queue) + 1
          /\ inbox_log'[Len(inbox_log')].captured_text = last'.text
          /\ inbox_log'[Len(inbox_log')].source_id = uuids + 1

\* C15: a delivery that reaches the default branch leaves its id in the
\* processed ids and is not short-circuited when the id was there already:
\* its text is enqueued (again), and the pipeline processes it (again) when
\* the handler runs the pipeline.
C15_DuplicateIsReprocessed ==
    [][ DefaultStep =>
          /\ last'.id \in processed_ids'
          /\ processed_ids' = processed_ids \cup {last'.id}
          /\ last'.enqueued = <<last'.text>>
          /\ IF config.run_pipeline
             THEN ProcessedAgain
             ELSE /\ queue' = Append(queue, QueueItem(last'.text, "webex", uuids + 1, now))
                  /\ last'.calls = <<>> ]_vars

\* two deliveries with the same id have gone through the default branch, and
\* the pipeline has logged the text twice
C15_Witness ==
    /\ last.op = "message"
    /\ last.branch = "default"
    /\ processed_ids = {last.id}
    /\ config.run_pipeline
    /\ Len(inbox_log) = 2
    /\ inbox_log[1].captured_text = last.text
    /\ inbox_log[2].captured_text = last.text
    /\ inbox_log[1].source_id # inbox_log[2].source_id

\* every invocation that was started has ended
AllEnded == \A i \in Invocations : procs[i].pc = "idle"

\* C16: once the invocations, interleaved in any way, have ended, the id
\* that each of them recorded in the processed ids is in the file.
C16_ProcessedIdsOnlyGrow ==
    AllEnded => \A i \in Invocations : procs[i].recorded => procs[i].id \in processed_ids

\* the message of the step is a `fix: <category>` reply
FixReply ==
    /\ last'.op = "message"
    /\ last'.branch # "ignored"
    /\ parse_fix_category(last'.text) # None

\* the sender had a pending_update that the TTL had not run out on
PendingLive == PendingBefore # <<>>

\* one capture item with the given text is enqueued, the pipeline runs when
\* SB_RUN_PIPELINE is true and only then, and the session store is as before
Requeued(text) ==
    /\ last'.enqueued = <<text>>
    /\ IF config.run_pipeline
       THEN queue' = <<>> /\ last'.calls # <<>>
       ELSE /\ queue' = Append(queue, QueueItem(text, "webex", uuids + 1, now))
            /\ last'.calls = <<>> /\ last'.posts = <<>>
            /\ tables' = tables /\ inbox_log' = inbox_log
    /\ state' = state
    /\ processed_ids' = processed_ids

\* the statement without the conditions on the dialogue and on white space:
\* every fix reply whose parent has a non-empty text enqueues the category
\* and that text
C17_FixRequeuesParentText ==
    [][ (FixReply /\ last'.parent # <<>> /\ last'.parent[1] # <<>>)
        => Requeued(CategoryText(parse_fix_category(last'.text)) \o <<58, 32>>  \* ": "
                    \o last'.parent[1]) ]_vars

\* C17: a `fix: <category>` reply of a sender with no live pending_update,
\* whose parent's text is not blank, enqueues exactly one capture item, the
\* mapped category followed by `: ` and the parent's text stripped (not the
\* reply's text), runs the pipeline only when auto-run is on, and leaves the
\* session store as it was.
C17_FixRequeuesParent ==
    [][ (FixReply /\ ~PendingLive /\ last'.parent # <<>> /\ Strip(last'.parent[1]) # <<>>)
        => /\ last'.branch = "fix"
           /\ Requeued(CategoryText(parse_fix_category(last'.text)) \o <<58, 32>>  \* ": "
                       \o Strip(last'.parent[1])) ]_vars

\* a fix reply to a padded parent was enqueued by a sender with a list
C17_Witness ==
    /\ last.op = "message"
    /\ last.branch = "fix"
    /\ last.body = "fixed"
    /\ last.parent = <<TxtPadded>>
    /\ last.before # <<>>
    /\ last.enqueued = << <<112, 114, 111, 106, 101, 99, 116, 115, 58, 32>> \o TxtFree >>  \* "projects: "

\* the delivery of the step
DeliveryOfStep ==
    Delivery(last'.id, <<last'.room, last'.person>>, last'.text, last'.parent,
             last'.author.personType)

\* the stored state before the step, with an empty session store
NoSessions == [Stored EXCEPT !.state = EmptyMap]

\* the step took the fix branch, and answered, enqueued, ran the pipeline and
\* left the files as the outcome b does
SameFix(b) ==
    /\ last'.branch = "fix"
    /\ b.branch = "fix"
    /\ b.status = last'.status
    /\ b.body = last'.body
    /\ b.enqueued = last'.enqueued
    /\ b.posts = last'.posts
    /\ b.calls = last'.calls
    /\ b.queue = queue'
    /\ b.tables = tables'
    /\ b.inbox_log = inbox_log'
    /\ b.uuids = uuids'
    /\ b.processed_ids = processed_ids'

\* the step did what handler does with the same message and collaborators
\* when there is no session at all, and left the session store as it was
AsWithoutSession ==
    /\ state' = state
    /\ \E env \in EnvsOf("fix") : SameFix(handler(DeliveryOfStep, NoSessions, env))

\* the statement for every session state: a fix reply is handled in the same
\* way whether the sender has no session, a list, a field prompt or a value
\* awaited
C18_FixWhateverTheSession == [][ FixReply => AsWithoutSession ]_vars

\* C18: a `fix: <category>` reply of a sender with no live pending_update
\* (no session, a list, or an expired session) is handled by the fix branch
\* exactly as from a sender without session, and the session store is left
\* as it was; with a live pending_update the update dialogue takes the reply.
C18_FixWithoutPending == [][ (FixReply /\ ~PendingLive) => AsWithoutSession ]_vars

\* a fix reply was re-queued for a sender whose list was live
C18_Witness ==
    /\ last.op = "message"
    /\ last.branch = "fix"
    /\ last.body = "fixed"
    /\ last.parent = <<TxtFree>>
    /\ last.before # <<>>
    /\ last.before[1].last_list # <<>>
    /\ last.before[1].pending_update = <<>>
    /\ ~Expired(last.before[1], now)

\* the sessions of the store that are not the sender's of the step and that
\* the TTL has not run out on
OtherLiveSessions ==
    { k \in {<<r, q>> : r \in {"r1", "r2"}, q \in {"p1", "p2"}} :
        /\ k # <<last'.room, last'.person>>
        /\ HasSession(state, k[1], k[2])
        /\ ~Expired(state[k[1]][k[2]], now) }

\* the stored state before the step, holding no session but the sender's
OwnSessionOnly ==
    [Stored EXCEPT !.state =
        IF last'.before = <<>> THEN EmptyMap
        ELSE SetSession(EmptyMap, last'.room, last'.person, last'.before[1])]

\* the step answered and acted as the outcome b does, and left the sender
\* the session that b leaves
SameOutcome(b) ==
    /\ b.branch = last'.branch
    /\ b.status = last'.status
    /\ b.body = last'.body
    /\ b.posts = last'.posts
    /\ b.calls = last'.calls
    /\ b.enqueued = last'.enqueued
    /\ b.queue = queue'
    /\ b.tables = tables'
    /\ b.inbox_log = inbox_log'
    /\ b.processed_ids = processed_ids'
    /\ PersonState(b.state, DeliveryOfStep) = PersonState(state', DeliveryOfStep)

\* C19: sessions are kept by (room, person): the handling of a message leaves
\* every live session of another key, the same person's in another room
\* included, exactly as it was, and does what it would do if the store held
\* no session but the sender's.
C19_SessionsAreNotShared ==
    [][ Handled =>
          /\ \A k \in OtherLiveSessions :
                /\ HasSession(state', k[1], k[2])
                /\ state'[k[1]][k[2]] = state[k[1]][k[2]]
          /\ \E env \in EnvsOf(last'.branch) :
                SameOutcome(handler(DeliveryOfStep, OwnSessionOnly, env)) ]_vars

\* the person asked for a list in one room while having a field prompt open
\* in the other
C19_Witness ==
    /\ last.op = "message"
    /\ last.room = "r2"
    /\ last.person = "p1"
    /\ last.branch = "command"
    /\ HasSession(state, "r2", "p1")
    /\ state["r2"]["p1"].pending_update = <<>>
    /\ HasSession(state, "r1", "p1")
    /\ state["r1"]["p1"].pending_update # <<>>
    /\ ~Expired(state["r1"]["p1"], now)

\* the pending_update pu belongs to an entry of the list
InList(pu, last_list) ==
    \E i \in 1..Len(last_list) :
        /\ last_list[i].record_id = pu.record_id
        /\ last_list[i].category = pu.category

\* the field pu awaits a value for is one of the fields it offers
KeyOffered(pu) == \E j \in 1..Len(pu.fields) : pu.fields[j].key = pu.field_key

\* C20: in every stored session a pending_update belongs to the same
\* session's last_list, its (record_id, category) being that of an entry of
\* the list, and when awaiting_value is true its field_key is the key of one
\* of the entries of its fields.
C20_PendingMatchesList ==
    \A r \in DOMAIN state : \A q \in DOMAIN state[r] :
        state[r][q].pending_update # <<>>
        => /\ InList(state[r][q].pending_update[1], state[r][q].last_list)
           /\ state[r][q].pending_update[1].awaiting_value
              => KeyOffered(state[r][q].pending_update[1])

\* a field of a project has just been chosen and its value is awaited
C20_Witness ==
    /\ last.op = "message"
    /\ last.branch = "field_selection"
    /\ last.body = "awaiting update value"
    /\ HasSession(state, last.room, last.person)
    /\ state[last.room][last.person].pending_update # <<>>
    /\ state[last.room][last.person].pending_update[1].awaiting_value
    /\ state[last.room][last.person].pending_update[1].category = "projects"
    /\ state[last.room][last.person].pending_update[1].field_key = "status"

\* the Storage calls and the enqueues of an invocation
Effects(r) == [calls |-> r.calls, enqueued |-> r.enqueued]

\* the effects of the invocations a and b when a runs from beginning to end
\* and b after it, from the stored state S
SerialAfter(S, r, b) ==
    << Effects(r), Effects(handler(DeliveryOf(b), Then(S, r), NoEnv)) >>

Serial(S, a, b) == SerialAfter(S, handler(DeliveryOf(a), S, NoEnv), b)

\* two invocations, one each, have run to their end, and both have returned
TwoDone ==
    /\ inputs = 2
    /\ \A i \in Invocations : procs[i].pc = "idle" /\ procs[i].id # "" /\ ~procs[i].raised

\* C21: when two invocations of the same (room, person) have run, interleaved
\* in any way, the Storage calls and enqueues each has made are those it
\* makes in one of the two serial orders.
C21_EffectsAreSerial ==
    (TwoDone /\ procs[1].sender = procs[2].sender)
    => \/ <<Effects(procs[1]), Effects(procs[2])>> = Serial(OriginOf, procs[1], procs[2])
       \/ <<Effects(procs[2]), Effects(procs[1])>> = Serial(OriginOf, procs[2], procs[1])

\* the notification is a filed one, a needs-review one
IsFiled(post) == StartsWith(post, <<70, 105, 108, 101, 100, 32, 97, 115, 32>>)  \* "Filed as "

IsReview(post) ==
    StartsWith(post, <<78, 101, 101, 100, 115, 32, 114, 101, 118, 105, 101, 119, 58, 32>>)  \* "Needs review: "

\* a turn of the loop of Pipeline.run that ended without exception
Turned == last'.op = "handle" /\ ~last'.raised

\* the turn stored the item as a new row and returned it, the turn stored
\* nothing
StoredIt ==
    /\ Len(last'.ret) = 1
    /\ last'.ret[1].record_id = uuids'
    /\ ~RecordFound(tables, last'.ret[1].category, last'.ret[1].record_id)
    /\ RecordFound(tables', last'.ret[1].category, last'.ret[1].record_id)

StoredNothing == last'.ret = <<>> /\ tables' = tables

\* C22: Pipeline.run takes the fetched items in the order of the fetch, sends
\* one notification for each, a filed one for an item it stored and a
\* needs-review one for any other, and returns the records it stored, in the
\* order of processing.
C22_RunInOrder ==
    [][ /\ last'.op = "fetch" => batch' = <<queue>> /\ stored' = <<>>
        /\ last'.op = "handle" => last'.item = Head(batch[1])
        /\ Turned =>
              /\ batch' = <<Tail(batch[1])>>
              /\ Len(last'.posts) = 1
              /\ IsFiled(last'.posts[1]) # IsReview(last'.posts[1])
              /\ IF IsFiled(last'.posts[1]) THEN StoredIt ELSE StoredNothing
              /\ stored' = stored \o last'.ret
        /\ last'.op = "run" => batch = << <<>> >> /\ last'.ret = stored ]_vars

\* a run of two items has returned the one record it filed, for the second
C22_Witness ==
    /\ last.op = "run"
    /\ Len(last.ret) = 1
    /\ Len(inbox_log) = 2
    /\ inbox_log[1].status = "needs_review"
    /\ inbox_log[2].status = "filed"
    /\ inbox_log[2].record_id = <<last.ret[1].record_id>>
    /\ inbox_log[1].timestamp = inbox_log[2].timestamp

\* the sequence s is the beginning of the sequence t
IsPrefix(s, t) == Len(s) <= Len(t) /\ SubSeq(t, 1, Len(s)) = s

\* every row and every inbox-log entry of before the step is there after it,
\* at its place and as it was
NothingRolledBack ==
    /\ \A c \in DOMAIN tables : IsPrefix(tables[c], tables'[c])
    /\ IsPrefix(inbox_log, inbox_log')

\* C23: when the AI or the Storage collaborator fails on an item (classify
\* and log_inbox are called for every item, store for the items that pass
\* the threshold), the exception leaves Pipeline.run: the run ends there and returns nothing, the
\* rows and inbox-log entries written for the earlier items stay as they are,
\* and the items after the failing one are never handled (they are in the
\* queue no more, and the next thing that can happen is a capture or a fetch).
C23_FailureAbortsRun ==
    [][ /\ (last'.op = "handle" /\ last'.fault \in {"ai", "log_inbox"}) => last'.raised
        /\ (last'.op = "handle" /\ last'.fault = "store" /\ ~last'.raised)
           => last'.ret = <<>> /\ tables' = tables
        /\ (last'.op = "handle" /\ last'.raised /\ last'.fault \in {"ai", "store", "log_inbox"})
           => /\ batch' = <<>>
              /\ stored' = <<>>
              /\ last'.ret = <<>>
              /\ last'.posts = <<>>
              /\ queue' = queue
              /\ NothingRolledBack
              /\ last'.fault \in {"ai", "store"} => tables' = tables /\ inbox_log' = inbox_log
        /\ (last.op = "handle" /\ last.raised) => last'.op \in {"capture", "fetch"} ]_vars

\* the store failed on the second of two items: the record and the log entry
\* of the first are there, and the run is over
C23_Witness ==
    /\ last.op = "handle"
    /\ last.raised
    /\ last.fault = "store"
    /\ batch = <<>>
    /\ queue = <<>>
    /\ Len(inbox_log) = 1
    /\ inbox_log[1].status = "filed"
    /\ inbox_log[1].source_id # last.item.item_id
    /\ RecordFound(tables, inbox_log[1].category, inbox_log[1].record_id[1])

\* the fetches of the invocations that returned the item with the given id
FetchesOf(item_id) ==
    { <<i, k>> \in Invocations \X (1..MaxInvocations) :
        k <= Len(procs[i].fetched) /\ procs[i].fetched[k] = item_id }

\* two invocations that enqueue and then fetch and run have returned
TwoRan ==
    /\ TwoDone
    /\ config.run_pipeline
    /\ \A i \in Invocations : procs[i].branch \in {"default", "fix"}

\* C24: when two invocations, each enqueuing its text and then fetching and
\* running, have returned, interleaved in any way, the queue is empty and
\* the item each enqueued was returned by exactly one fetch.
C24_ConsumedExactlyOnce ==
    TwoRan => /\ queue = <<>>
              /\ \A i \in Invocations : Cardinality(FetchesOf(procs[i].item_id)) = 1

\* the ids of the items that were enqueued: those of the queue at the start
\* and those of the two invocations
Enqueued ==
    {OriginOf.queue[k].item_id : k \in 1..Len(OriginOf.queue)}
    \cup {procs[j].item_id : j \in Invocations}

\* what of C24 the interleavings leave standing: the queue is empty, every
\* fetch returns items in the order of their ids, and none that was not
\* enqueued
C24_FetchedInOrder ==
    TwoRan => /\ queue = <<>>
              /\ \A i \in Invocations :
                    /\ \A k \in 1..Len(procs[i].fetched) : procs[i].fetched[k] \in Enqueued
                    /\ \A k \in 1..(Len(procs[i].fetched) - 1) :
                          procs[i].fetched[k] < procs[i].fetched[k + 1]

\* min(confidence, 0.4), in hundredths
Capped(confidence) == IF confidence < 40 THEN confidence ELSE 40

\* the turn went through with an answer whose category is none of the four
Coerced == Turned /\ last'.result.category \notin {"people", "projects", "ideas", "admin"}

\* the log entry the turn wrote
Logged == inbox_log'[Len(inbox_log')]

\* C25: for an answer whose category is not one of people, projects, ideas,
\* admin, the log entry, the notification and the stored record (if any)
\* carry the category admin, and the confidence that is compared with the
\* threshold, logged and notified is min(original confidence, 0.4).
C25_InvalidCategoryIsAdmin ==
    [][ Coerced =>
          /\ Len(inbox_log') = Len(inbox_log) + 1
          /\ Logged.category = "admin"
          /\ Logged.confidence = Capped(last'.result.confidence)
          /\ Len(last'.posts) = 1
          /\ IF Capped(last'.result.confidence) < config.confidence_threshold
             THEN /\ StoredNothing
                  /\ Logged.status = "needs_review"
                  /\ last'.posts[1] = NeedsReviewText(last'.result.title, "admin",
                                                      Capped(last'.result.confidence))
             ELSE /\ StoredIt
                  /\ Logged.status = "filed"
                  /\ last'.ret[1].category = "admin"
                  /\ \A c \in VALID_CATEGORIES \ {"admin"} : tables'[c] = tables[c]
                  /\ last'.posts[1] = FiledText("admin", last'.ret[1].title,
                                                Capped(last'.result.confidence)) ]_vars

\* an answer `misc` with confidence 0.95 was filed under a threshold of 0.4:
\* the record is an admin one and the log entry says 0.4
C25_Witness ==
    /\ last.op = "handle"
    /\ ~last.raised
    /\ last.result.category = "misc"
    /\ last.result.confidence = 95
    /\ config.confidence_threshold = 40
    /\ Len(last.ret) = 1
    /\ last.ret[1].category = "admin"
    /\ inbox_log[Len(inbox_log)].confidence = 40
    /\ inbox_log[Len(inbox_log)].category = "admin"

\* the due_date the AI proposed in the turn, "" when it proposed none
Proposed == Get(last'.result.fields, "due_date", <<>>)

\* the turn filed an admin record
FiledAdmin == Turned /\ StoredIt /\ last'.ret[1].category = "admin"

\* C26: an admin record the gate files (one whose category was coerced to
\* admin too) has the proposed due_date when that parses as a date and is
\* not before the current UTC date, and the due_date "" otherwise.
C26_DueDateOfAdmin ==
    [][ FiledAdmin =>
          /\ HasKey(last'.ret[1].fields, "due_date")
          /\ Get(last'.ret[1].fields, "due_date", <<>>)
                = IF is_valid_date(Proposed) /\ ~KeyLess(ParseIsoDate(Proposed)[2], Today(now))
                  THEN Proposed ELSE <<>>
          /\ tables'["admin"][Len(tables'["admin"])].fields = last'.ret[1].fields ]_vars

\* two admin records were filed, the first with a due_date that was cleared,
\* the second, coerced from `misc`, with the due_date of today, kept
C26_Witness ==
    /\ last.op = "handle"
    /\ ~last.raised
    /\ last.result.category = "misc"
    /\ Get(last.result.fields, "due_date", <<>>) = TodayDate
    /\ Len(tables["admin"]) = 2
    /\ Get(tables["admin"][1].fields, "due_date", TodayDate) = <<>>
    /\ Get(tables["admin"][2].fields, "due_date", <<>>) = TodayDate

\* C27: every confidence in the inbox log lies in [0, 1] (0..100
\* hundredths), whatever the AI answered.
C27_ConfidenceInUnitInterval ==
    \A i \in 1..Len(inbox_log) : inbox_log[i].confidence \in 0..100

\* what of C27 the code keeps: the confidence that is logged is the AI's, or
\* at most 0.4 for a category that is none of the four, and is in [0, 1]
\* when the AI's is
C27_ConfidenceAsAnswered ==
    [][ (last'.op = "handle" /\ Len(inbox_log') = Len(inbox_log) + 1)
        => /\ Logged.confidence = ClaimedConfidence(last'.result)
           /\ last'.result.confidence \in 0..100 => Logged.confidence \in 0..100 ]_vars

\* the message of the step is an `update <n>`, whether or not int() takes
\* the numeral, that passed the tests of lines 385-447
UpdateRequested ==
    /\ Handled
    /\ parse_update_request(last'.text) # NoNumber

\* the sender had no session the TTL had not run out on, or one with an
\* empty last_list
NoListBefore == ~LiveBefore \/ last'.before[1].last_list = <<>>

\* the corrective reply: the missing-list reply with a 200 response and no
\* exception, nothing stored changed, no call and nothing enqueued
CorrectiveReply ==
    /\ last'.branch = "update_request"
    /\ last'.status = 200
    /\ last'.body = "missing list"
    /\ ~last'.raised
    /\ last'.posts = <<"No recent list found.">>
    /\ last'.calls = <<>>
    /\ last'.enqueued = <<>>
    /\ state' = state
    /\ tables' = tables
    /\ inbox_log' = inbox_log /\ queue' = queue

\* C28: `update <n>` of a sender who has no session, or a session with an
\* empty last_list, is answered with the corrective reply and a 200
\* response, without an exception; no pending_update is created, no Storage
\* call is made and nothing stored changes.
C28_UpdateWithoutList ==
    [][ (UpdateRequested /\ NoListBefore) => CorrectiveReply ]_vars

\* what of C28 the code keeps: the same for an n whose numeral has at most
\* MaxStrDigits digits
C28_UpdateWithoutListShort ==
    [][ (UpdateRequested /\ NoListBefore
         /\ parse_update_request(last'.text) # ValueError) => CorrectiveReply ]_vars

\* `update` with a numeral of MaxStrDigits + 1 digits of a sender without a
\* session ended in the ValueError of int() and got no reply
C28_LongNumeralRaised ==
    /\ last.op = "message"
    /\ last.text = TxtUpdateLong
    /\ last.raised
    /\ last.status = 500
    /\ last.posts = <<>>
    /\ last.before = <<>>

\* `update 1` was answered with the corrective reply while the store held
\* records and the sender's session, left by a list command, held an empty
\* list
C28_Witness ==
    /\ last.op = "message"
    /\ last.text = TxtUpdate1
    /\ last.body = "missing list"
    /\ last.before # <<>>
    /\ last.before[1].last_list = <<>>
    /\ last.before[1].pending_update = <<>>

\* the rows of the store, and the row with the given id
RowSet == { RowsOf(tables, CATEGORIES)[i] : i \in 1..RowCount(tables) }

RowById(id) == CHOOSE r \in RowSet : r.id = id

\* the rows created in the last days days
Window(days) == { r \in RowSet : ~(r.created_at < now - days * MinutesPerDay) }

\* the rows whose status is not a terminal one
OpenRows == { r \in RowSet : status_value(r) \notin COMPLETED_STATUSES }

\* the bucket of a status
Bucket(status) ==
    IF status \in { <<98, 108, 111, 99, 107, 101, 100>>, <<105, 110, 32, 112, 114, 111, 103, 114, 101, 115, 115>>,  \* "blocked", "in progress"
                    <<97, 99, 116, 105, 118, 101>> } THEN 0  \* "active"
    ELSE IF status \in { <<111, 112, 101, 110>>, <<100, 111, 105, 110, 103>>, <<110, 101, 120, 116>>,  \* "open", "doing", "next"
                         <<116, 111, 100, 111>> } THEN 1  \* "todo"
    ELSE IF status \in { <<98, 97, 99, 107, 108, 111, 103>>, <<115, 111, 109, 101, 100, 97, 121>>,  \* "backlog", "someday"
                         <<108, 97, 116, 101, 114>> } THEN 2  \* "later"
    ELSE 3

WindowKey(r) == <<priority_value(r), r.created_at>>

OpenKey(r) == <<priority_value(r), Bucket(status_value(r)), r.created_at>>

\* the list holds the first twenty (all, when there are fewer) of the rows
\* cands in non-decreasing order of Key, each as the item made of the row
FirstOf(cands, Key(_), list) ==
    /\ Len(list) = IF Cardinality(cands) < 20 THEN Cardinality(cands) ELSE 20
    /\ \A i \in 1..Len(list) :
          /\ \E r \in cands : list[i] = [record_id |-> r.id, category |-> r.category,
                                          title |-> r.title, fields |-> r.fields]
          /\ \A j \in (i + 1)..Len(list) :
                /\ list[i].record_id # list[j].record_id
                /\ ~KeyLess(Key(RowById(list[j].record_id)), Key(RowById(list[i].record_id)))
          /\ \A r \in cands :
                (\A j \in 1..Len(list) : list[j].record_id # r.id)
                => ~KeyLess(Key(r), Key(RowById(list[i].record_id)))

\* the list the step left in the sender's session
Listed == SessionAfter[1].last_list

\* C29: the list of `today` holds the rows created in the last day in the
\* order of (priority, created_at); when there is none, it holds the rows of
\* any age whose status is not terminal, in the order of (priority,
\* status bucket, created_at).
C29_TodayFallsBackToOpen ==
    [][ (Handled /\ last'.body = "daily digest sent")
        => /\ SessionAfter # <<>>
           /\ IF Window(1) # {} THEN FirstOf(Window(1), WindowKey, Listed)
              ELSE FirstOf(OpenRows, OpenKey, Listed) ]_vars

\* `today` on a store of three old rows, the second of them done: the list
\* holds the third, of priority 1, and then the first
C29_Witness ==
    /\ last.op = "message"
    /\ last.body = "daily digest sent"
    /\ RowCount(tables) = 3
    /\ Window(1) = {}
    /\ status_value(RowById(2)) \in COMPLETED_STATUSES
    /\ state["r1"]["p1"].last_list # <<>>
    /\ [i \in 1..2 |-> state["r1"]["p1"].last_list[i].record_id] = <<3, 1>>

\* C30: the list of a list command has at most 20 entries, and so has the
\* last_list of every session; the lists of `week` and `next` hold the first
\* 20 of the rows created in the last 7 and 14 days in the order of
\* (priority, created_at), and nothing when there is no such row.
C30_ListsAreCapped ==
    [][ (Handled /\ last'.branch = "command" /\ last'.body # "help sent")
        => /\ SessionAfter # <<>>
           /\ \A r \in DOMAIN state' : \A q \in DOMAIN state'[r] :
                 Len(state'[r][q].last_list) <= 20
           /\ last'.body = "weekly digest sent" => FirstOf(Window(7), WindowKey, Listed)
           /\ last'.body = "next digest sent" => FirstOf(Window(14), WindowKey, Listed) ]_vars

\* `this week?` on a store of 21 rows of the last day: the list holds 20,
\* and the row left out is one of the lowest priority
C30_Witness ==
    /\ last.op = "message"
    /\ last.body = "weekly digest sent"
    /\ RowCount(tables) = 21
    /\ Cardinality(Window(7)) = 21
    /\ Len(state["r1"]["p1"].last_list) = 20
    /\ \E r \in RowSet : /\ priority_value(r) = 3
                          /\ \A i \in 1..20 : state["r1"]["p1"].last_list[i].record_id # r.id

\* the integer each of the texts stands for when it is one of 1..5, 3
\* otherwise
PriorityOfText(text) ==
    CASE text = <<49>> -> 1  \* "1"
      [] text = <<50>> -> 2  \* "2"
      [] text = <<32, 50, 32>> -> 2  \* " 2 "
      [] text = <<51>> -> 3  \* "3"
      [] text = <<52>> -> 4  \* "4"
      [] text = <<43, 52>> -> 4  \* "+4"
      [] text = <<48, 95, 52>> -> 4  \* "0_4"
      [] text = <<53>> -> 5  \* "5"
      [] text = <<1780>> -> 4  \* U+06F4
      [] text = <<5760, 52>> -> 4  \* U+1680, "4"
      [] OTHER -> 3

\* the text the function reads: the Priority field unless it is missing or
\* empty, then the priority field, then ""
PriorityRead(record) ==
    IF HasKey(record.fields, "Priority") /\ Get(record.fields, "Priority", <<>>) # <<>>
    THEN Get(record.fields, "Priority", <<>>)
    ELSE Get(record.fields, "priority", <<>>)

\* C31: _priority_value returns an integer in 1..5: the integer the field
\* holds when that is one of 1..5, and 3 for a field that is missing, empty,
\* not a number or out of the range.
C31_PriorityInRange ==
    last.op = "priority"
    => /\ last.ret \in 1..5
       /\ last.ret = PriorityOfText(PriorityRead(last.record))

\* the function returned 3 for a record whose Priority is 7 and whose
\* priority is 2
C31_Witness ==
    /\ last.op = "priority"
    /\ Get(last.record.fields, "Priority", <<>>) = <<55>>  \* "7"
    /\ Get(last.record.fields, "priority", <<>>) = <<50>>  \* "2"
    /\ last.ret = 3

\* the title the fields of a row stand for: the name if it is not empty,
\* else the title if it is not empty, else Untitled
DerivedTitle(fields) ==
    IF Get(fields, "name", <<>>) # <<>> THEN Get(fields, "name", <<>>)
    ELSE IF Get(fields, "title", <<>>) # <<>> THEN Get(fields, "title", <<>>)
    ELSE <<85, 110, 116, 105, 116, 108, 101, 100>>  \* "Untitled"

\* C32: the title of every stored row is the one its fields stand for.
C32_TitleIsDerived ==
    \A c \in DOMAIN tables : \A i \in 1..Len(tables[c]) :
        tables[c][i].title = DerivedTitle(tables[c][i].fields)

\* what of C32 the code keeps: the row that store appends has the title its
\* fields stand for, and an update_record that sets a non-empty name sets
\* the title to it
C32_TitleWhenStored ==
    [][ /\ last'.op = "store"
           => LET row == tables'[last'.category][Len(tables'[last'.category])]
              IN  row.id = last'.record_id /\ row.title = DerivedTitle(row.fields)
        /\ (last'.op = "update" /\ ~last'.raised)
           => \A i \in 1..Len(tables'[last'.category]) :
                 LET row == tables'[last'.category][i]
                     old == tables[last'.category][i]
                 IN  \/ row.title = old.title
                     \/ row.title = DerivedTitle(row.fields)
                     \/ row.title = Get(row.fields, "title", <<>>) ]_vars

\* C33: once the invocations, interleaved in any way, have ended, every
\* entry that one of them appended to the inbox log is in the log, as it
\* was and where it was.
C33_LogIsAppendOnly ==
    AllEnded => \A i \in Invocations : \A k \in 1..Len(procs[i].logged) :
                    /\ procs[i].logged[k][1] <= Len(inbox_log)
                    /\ inbox_log[procs[i].logged[k][1]] = procs[i].logged[k][2]

\* the turn took the captured text `project: Ship v2 by Friday` under the
\* threshold 0.6
ShipTurn ==
    /\ last'.op = "handle"
    /\ last'.item.text = TxtProjectShip
    /\ config.confidence_threshold = 60

\* the turn filed the item in projects: one new row there and nowhere else,
\* returned as the record, and one new log entry, a filed one
FiledInProjects ==
    /\ last'.result.category = "projects"
    /\ last'.result.confidence = 80
    /\ Len(last'.ret) = 1
    /\ last'.ret[1].category = "projects"
    /\ Len(tables'["projects"]) = Len(tables["projects"]) + 1
    /\ \A c \in VALID_CATEGORIES \ {"projects"} : tables'[c] = tables[c]
    /\ tables'["projects"][Len(tables'["projects"])].title = last'.ret[1].title
    /\ Len(inbox_log') = Len(inbox_log) + 1
    /\ Logged.status = "filed"
    /\ Logged.record_id = <<last'.ret[1].record_id>>

\* C34: `project: Ship v2 by Friday` is classified as projects with
\* confidence 0.8 and filed under threshold 0.6: one record in projects,
\* titled `Ship v2 by Friday`, and one filed log entry.
C34_ShipScenario ==
    [][ ShipTurn => FiledInProjects /\ last'.ret[1].title = <<83, 104, 105, 112, 32, 118, 50, 32, 98, 121, 32, 70, 114, 105, 100, 97, 121>> ]_vars  \* "Ship v2 by Friday"

\* what of C34 the code does: the same, with the title made of the first
\* six words of the whole text
C34_ShipScenarioAsCoded ==
    [][ ShipTurn => FiledInProjects /\ last'.ret[1].title = <<112, 114, 111, 106, 101, 99, 116, 32, 83, 104, 105, 112, 32, 118, 50, 32, 98, 121, 32, 70, 114, 105, 100, 97, 121>> ]_vars  \* "project Ship v2 by Friday"

\* the turn left the item for review: a needs_review entry and no call of
\* Storage.store
LeftForReview ==
    /\ Len(inbox_log') = Len(inbox_log) + 1
    /\ Logged.status = "needs_review"
    /\ Logged.record_id = <<>>
    /\ StoredNothing
    /\ last'.ret = <<>>

\* C35: an answer whose category is none of the four is never filed as
\* admin: for every configured threshold and every confidence the item ends
\* as needs_review and Storage.store is not called.
C35_NeverAutoFiled ==
    [][ Coerced => LeftForReview ]_vars

\* what of C35 the code does: the item is left for review under every
\* threshold above 0.4, and under the others when its confidence is below
\* the threshold
C35_ReviewAboveTheCap ==
    [][ (Coerced /\ (config.confidence_threshold > 40
                      \/ last'.result.confidence < config.confidence_threshold))
           => LeftForReview ]_vars

\* two invocations of different senders have run to their end, and each has
\* written its sender's session with _save_state
TwoSaved ==
    /\ TwoDone
    /\ procs[1].sender # procs[2].sender
    /\ \A i \in Invocations : procs[i].saved # <<>>

\* C36: when two invocations of different (room, person) keys have each
\* written their own sender's session, interleaved in any way, the session
\* file holds for each sender what its invocation wrote.
C36_BothSessionsKept ==
    TwoSaved => \A i \in Invocations : SessionIn(state, procs[i].sender) = procs[i].saved[1]

\* the step is the second delivery of the message of the step before it,
\* which was taken as a field selection or as a field value and ended with
\* the given body
ReplayOf(body) ==
    /\ last.op = "message"
    /\ last.branch \in {"awaiting_value", "field_selection"}
    /\ last.body = body
    /\ ~last.raised
    /\ last'.op = "message"
    /\ last'.id = last.id
    /\ last'.text = last.text
    /\ last'.room = last.room
    /\ last'.person = last.person
    /\ last'.author = last.author
    /\ last'.parent = last.parent

\* the step enqueued nothing, stored no record and wrote no log entry
NothingCaptured ==
    /\ last'.enqueued = <<>>
    /\ queue' = queue
    /\ inbox_log' = inbox_log
    /\ RowCount(tables') = RowCount(tables)

\* C37: a message that was taken as a field selection or as a field value
\* and is delivered again, with the same id, after the first delivery was
\* handled, causes no enqueue, no new record and no new log entry.
C37_ReplayIsHarmless ==
    [][ (ReplayOf("updated") \/ ReplayOf("awaiting update value")) => NothingCaptured ]_vars

\* what of C37 the code does: the second delivery of a bare field number is
\* taken as the value of the field and captures nothing
C37_ReplayOfSelection ==
    [][ ReplayOf("awaiting update value")
          => NothingCaptured /\ last'.branch = "awaiting_value" ]_vars

\* the entries of a log that were written for the item
EntriesOf(log, item) == { k \in 1..Len(log) : log[k].source_id = item.item_id }

\* after the step the item is accounted for: it has exactly one log entry,
\* or it is in the queue, or the run that fetched it still has it to handle
AccountedFor(item) ==
    \/ Cardinality(EntriesOf(inbox_log', item)) = 1
    \/ \E k \in 1..Len(queue') : queue'[k] = item
    \/ batch' # <<>> /\ \E k \in 1..Len(batch'[1]) : batch'[1][k] = item

\* C38: every item that fetch took from the queue ends with exactly one
\* log entry or is in the queue again, also when a turn of Pipeline.run
\* fails and the run ends before the last item of the batch.
C38_NoItemIsLost ==
    [][ last'.op = "handle" => \A k \in 1..Len(batch[1]) : AccountedFor(batch[1][k]) ]_vars

\* what of C38 the code does: a turn that does not fail leaves exactly one
\* log entry for its item and the items after it to the next turns
C38_HandledItemsAreLogged ==
    [][ (last'.op = "handle" /\ ~last'.raised)
          => /\ Cardinality(EntriesOf(inbox_log', Head(batch[1]))) = 1
             /\ EntriesOf(inbox_log, Head(batch[1])) = {}
             /\ \A k \in 1..Len(batch[1]) : AccountedFor(batch[1][k]) ]_vars

\* the message `<n> ok` of the sender
Selecting(room, person, n) ==
    Delivery("m9", <<room, person>>, IntText(n) \o <<32>> \o ValOk, <<>>, "person")  \* " "

\* with every collaborator working, the message d of the sender is answered
\* with a call of Storage.update_record and leaves no pending_update
Completes(d) ==
    /\ handler(d, Stored, NoEnv).body = "updated"
    /\ \E k \in 1..Len(handler(d, Stored, NoEnv).calls) :
          handler(d, Stored, NoEnv).calls[k].op = "update_record"
    /\ Pending(handler(d, Stored, NoEnv).state, d) = <<>>

\* C39: whenever a session holds a pending_update, its fields are not
\* empty, and a message with one of the field numbers is answered with a
\* call of Storage.update_record and leaves pending_update null, with no
\* cancel and no expiry.
C39_MenuCanBeCompleted ==
    \A room \in DOMAIN state : \A person \in DOMAIN state[room] :
        state[room][person].pending_update # <<>>
        => /\ Len(state[room][person].pending_update[1].fields) >= 1
           /\ \E n \in 1..Len(state[room][person].pending_update[1].fields) :
                 Completes(Selecting(room, person, n))

\* `update 1` was answered with the menu of an admin record the pipeline
\* filed from an answer without fields: the menu has the fields `name` and
\* `due_date`, the keys of the record
C39_Witness ==
    /\ last.op = "message"
    /\ last.body = "update prompt sent"
    /\ HasSession(state, "r1", "p1")
    /\ state["r1"]["p1"].pending_update # <<>>
    /\ ~state["r1"]["p1"].pending_update[1].awaiting_value
    /\ state["r1"]["p1"].pending_update[1].category = "admin"
    /\ Len(state["r1"]["p1"].pending_update[1].fields) = 2
    /\ state["r1"]["p1"].pending_update[1].fields[1].key = "name"
    /\ state["r1"]["p1"].pending_update[1].fields[2].key = "due_date"

\* the step handled a message as a field value, in one message with the
\* field number or as the awaited value, and Storage.update_record raised
UpdateFailed ==
    /\ last'.op = "message"
    /\ last'.branch \in {"awaiting_value", "field_selection"}
    /\ last'.raised
    /\ \E k \in 1..Len(last'.calls) : last'.calls[k].op = "update_record"

\* C40: when Storage.update_record fails while a field value is applied,
\* the session file is as before the message (pending_update with its
\* awaiting_value and its pinned field_key included), no record changes,
\* and nothing is posted.
C40_FailedUpdateKeepsSession ==
    [][ UpdateFailed
          => /\ state' = state
             /\ SessionAfter = last'.before
             /\ tables' = tables
             /\ last'.posts = <<>>
             /\ last'.body # "updated" ]_vars

\* update_record failed on the awaited value of the field `name`: the
\* session still awaits the value of that field
C40_Witness ==
    /\ last.op = "message"
    /\ last.branch = "awaiting_value"
    /\ last.raised
    /\ last.posts = <<>>
    /\ Len(last.calls) = 1
    /\ last.calls[1].op = "update_record"
    /\ last.before # <<>>
    /\ HasSession(state, last.room, last.person)
    /\ state[last.room][last.person] = last.before[1]
    /\ state[last.room][last.person].pending_update # <<>>
    /\ state[last.room][last.person].pending_update[1].awaiting_value
    /\ state[last.room][last.person].pending_update[1].field_key = "name"
====
